---------------------------- MODULE Spec2Model ----------------------------
(***************************************************************************)
(* Exhibition optimiser: a catalog of tagged paintings is parsed, grouped  *)
(* into frameglasses (one landscape, or two portraits), the frameglasses   *)
(* are ordered by a strategy and the ordering is scored.                   *)
(*                                                                         *)
(* The repository holds five scripts that implement this pipeline with     *)
(* small variations: python.py, op1gpt.py, finalall.py, naveen.py and      *)
(* Optimised.py.  The variable `script` says which of them is running.     *)
(*                                                                         *)
(* SpecBuild  parses a catalog line by line and builds the frameglasses    *)
(*            (python.py's pairing loop is modelled one iteration at a     *)
(*            time), then runs ordering strategies on the result.          *)
(* SpecScore  starts from the frameglasses of a catalog of landscapes over *)
(*            a larger tag universe and runs the strategies and scorers.   *)
(* SpecOrder  starts from a parsed catalog of landscapes, builds the       *)
(*            frames and runs the script's "run all strategies" loop, the  *)
(*            greedy strategies one selection at a time, up to the output  *)
(*            file.                                                        *)
(***************************************************************************)
EXTENDS Integers, Sequences, FiniteSets, TLC

VARIABLES
    script,            \* which script of the repository is running
    pc,                \* position in the pipeline: parse, parsed, pairing, built, failed
    paintings,         \* naveen.py: the list parse_input returns
    landscapes,        \* the other scripts: landscapes, in input order
    portraits,         \* the other scripts: portraits (Optimised.py sorts it in place)
    tag2id,            \* Optimised.py: tag string -> dense integer id
    portraits_sorted,  \* python.py create_frameglasses: local portraits_sorted
    used,              \* python.py create_frameglasses: local used (painting ids)
    i,                 \* python.py create_frameglasses: index of the outer for loop
    frameglasses,      \* the frame list the builder is filling / has returned
    results,           \* strategy name -> [ordered, score] of the runs made so far
    catalog,           \* the lines of the input file read so far: [orientation, tags]
    sidx,              \* run-all loop: how many strategies of the table have been tried
    run_best_score,    \* run-all loop: best_score (the score returned, once returned)
    best_ordered,      \* run-all loop: best_ordered / best_result / best_ordering
    output,            \* the contents of the output file: [count, lines]
    remaining,         \* greedy strategies: local remaining
    result,            \* greedy strategies: local result (python.py: ordered)
    trial,             \* naveen.py: random trials made in the current iteration
    best_random,       \* naveen.py: [score, ordering] of the best random trial so far
    shuffled,          \* the random strategy: the list its last call returned
    cand_limit,        \* Optimised.py strat_greedy_fast: the value of LIMIT_CANDIDATES
    input_files,       \* Optimised.py main: file name -> the lines of the file
    choice,            \* main: the menu choice, passed to every worker
    dicts,             \* the tag2id dict objects: main's and each task's own
    tasks,             \* file name -> the locals of its process_file_worker call
    output_dir,        \* the directory Output: file name -> [count, lines]
    scores_times,      \* main: file name -> score
    completed,         \* main: the counter of finished futures
    total_score_sum,   \* main: the total of the summary
    main_pc,           \* main: idle, start, waiting, done
    ref_seq,           \* refiner: the sequence being refined
    ref_i,             \* refiner: the index of the pair (i, i + 1) to try next
    ref_passes,        \* refiner: passes made in this run
    ref_swaps,         \* refiner: swaps kept in the current pass
    ref_total,         \* refiner: swaps kept in this run
    ref_runs           \* refiner: [output, swaps, last] of the runs that ended

vars == <<script, pc, paintings, landscapes, portraits, tag2id,
          portraits_sorted, used, i, frameglasses, results,
          catalog, sidx, run_best_score, best_ordered, output, remaining, result,
          trial, best_random, shuffled, cand_limit,
          input_files, choice, dicts, tasks, output_dir, scores_times, completed,
          total_score_sum, main_pc,
          ref_seq, ref_i, ref_passes, ref_swaps, ref_total, ref_runs>>

\* the locals of the ordering loops
loopVars == <<sidx, best_ordered, output, remaining, result, trial, best_random>>

orderVars == <<run_best_score, sidx, best_ordered, output, remaining, result, trial,
               best_random>>

\* the state of the batch driver and of its workers
batchVars == <<input_files, choice, dicts, tasks, output_dir, scores_times,
               completed, total_score_sum, main_pc>>

\* the state of the refiner
refVars == <<ref_seq, ref_i, ref_passes, ref_swaps, ref_total, ref_runs>>

---------------------------------------------------------------------------
(* Bounds and input domains *)

MaxPaintings == 4
MaxFrames == 4
MaxOrderFrames == 4
\* naveen.py's catalogs in SpecOrder: every trial multiplies the orderings
MaxTrialFrames == 3
\* the input files of a batch
MaxFiles == 2
\* the frames of a sequence handed to the refiner
MaxRefineFrames == 6

BuildTags == {"a", "b"}
ScoreTags == {"a", "b", "c"}
OrderTagSets == {{"a"}, {"a", "b"}, {"a", "c"}}
Orientations == {"L", "P"}
Scripts == {"python", "op1gpt", "finalall", "naveen", "Optimised"}
SetScripts == {"python", "op1gpt", "finalall"}
\* Python's None, for best_pair: no painting has a negative id
None == [id |-> 0 - 1]
\* Python's None where a list is expected (best_ordered before the first
\* strategy): no frame list equals it
NoList == <<None>>
\* no output file written yet
NoFile == [count |-> 0 - 1, lines |-> <<>>]

---------------------------------------------------------------------------
(* Small helpers *)

Range(s) == {s[k] : k \in DOMAIN s}

Min2(a, b) == IF a <= b THEN a ELSE b

Min3(a, b, c) == Min2(a, Min2(b, c))

EmptyMap == <<>>

---------------------------------------------------------------------------
(* Data structures *)

\* python.py / op1gpt.py / finalall.py Painting.__init__
Painting(painting_id, orientation, tags) ==
    [id |-> painting_id, orientation |-> orientation, tags |-> tags,
     tag_count |-> Cardinality(tags)]

\* naveen.py Painting.__init__ (no cached count)
Painting_naveen(pid, orientation, tags) ==
    [id |-> pid, orientation |-> orientation, tags |-> tags]

\* Optimised.py Painting.__init__
Painting_Optimised(pid, ori, tag_ids) ==
    [id |-> pid, orientation |-> ori, tag_ids |-> tag_ids,
     tag_count |-> Cardinality(tag_ids)]

\* the bug of taking the first painting's tags for the frame's
UnionTags_first(ps) == IF ps = <<>> THEN {} ELSE ps[1].tags

\* The tag set Frameglass.__init__ accumulates: tags.update(p.tags) for each p
UnionTags(ps) == UNION {ps[k].tags : k \in DOMAIN ps}

\* python.py / op1gpt.py / finalall.py Frameglass.__init__
Frameglass(ps) ==
    [paintings |-> ps, tags |-> UnionTags(ps),
     tag_count |-> Cardinality(UnionTags(ps))]

\* naveen.py Frameglass.__init__: ids and tags are handed in by the caller
Frameglass_naveen(painting_ids, tags) ==
    [painting_ids |-> painting_ids, tags |-> tags]

\* The tag-id set Frame.__init__ accumulates: tag_ids |= p.tag_ids for each p
UnionTagIds(ps) == UNION {ps[k].tag_ids : k \in DOMAIN ps}

\* Optimised.py Frame.__init__
Frame(ps) ==
    [paintings |-> ps, tag_ids_set |-> UnionTagIds(ps),
     tag_count |-> Cardinality(UnionTagIds(ps))]


---------------------------------------------------------------------------
(* Sorting.  Python's sorted / list.sort are stable, also with            *)
(* reverse=True: elements with equal keys keep their input order.         *)

\* the bug of sorting upwards and reversing the list: with reverse, equal
\* keys come out in the reverse of their input order
InsertPos_reversedTies(r, x, reverse) ==
    IF reverse
    THEN Cardinality({j \in DOMAIN r : r[j].tag_count > x.tag_count})
    ELSE Cardinality({j \in DOMAIN r : r[j].tag_count <= x.tag_count})

\* where x goes in r, a list already sorted by tag_count in the given direction
InsertPos(r, x, reverse) ==
    IF reverse
    THEN Cardinality({j \in DOMAIN r : r[j].tag_count >= x.tag_count})
    ELSE Cardinality({j \in DOMAIN r : r[j].tag_count <= x.tag_count})

InsertSorted(r, x, reverse) ==
    LET k == InsertPos(r, x, reverse)
    IN  SubSeq(r, 1, k) \o <<x>> \o SubSeq(r, k + 1, Len(r))

RECURSIVE SortFrom(_, _, _, _)
SortFrom(s, k, r, reverse) ==
    IF k > Len(s) THEN r
    ELSE SortFrom(s, k + 1, InsertSorted(r, s[k], reverse), reverse)

\* sorted(s, key=lambda p: p.tag_count, reverse=reverse)
sorted_by_tag_count(s, reverse) == SortFrom(s, 1, <<>>, reverse)

---------------------------------------------------------------------------
(* Frame builders *)

\* python.py 110-111, and the same loop in op1gpt.py / finalall.py
LandscapeFrames(ls) == [k \in DOMAIN ls |-> Frameglass(<<ls[k]>>)]

\* the bug of leaving the overlap penalty out
PairScore_noPenalty(p1, p2) == 10 * Cardinality(p1.tags \cup p2.tags)

\* python.py 132-134: score = total_tags - overlap * 0.3, kept exact by
\* scaling with 10.  The comparisons of 136 are unchanged by the scaling:
\* Python's floats order these values as the exact numbers do, and where
\* two exact values tie with different overlaps the float of the candidate
\* with more tags, which the scan meets first, is never the smaller one
\* (enumerated for paintings of up to 100 tags).
PairScore(p1, p2) ==
    10 * Cardinality(p1.tags \cup p2.tags) - 3 * Cardinality(p1.tags \cap p2.tags)

\* python.py 125: best_score = -1, on the same scale
PairScoreInit == 0 - 10

\* python.py 128-138: the inner loop over portraits_sorted[i+1:], from the
\* 1-based position k on
RECURSIVE FindBestPair(_, _, _, _, _, _)
FindBestPair(p1, cands, usedIds, k, best_pair, best_score) ==
    IF k > Len(cands) THEN best_pair
    ELSE LET p2 == cands[k]
         IN  IF p2.id \in usedIds
             THEN FindBestPair(p1, cands, usedIds, k + 1, best_pair, best_score)
             ELSE IF PairScore(p1, p2) > best_score
                  THEN FindBestPair(p1, cands, usedIds, k + 1, p2, PairScore(p1, p2))
                  ELSE FindBestPair(p1, cands, usedIds, k + 1, best_pair, best_score)

\* the bug of leaving out the filter: every portrait counts as unpaired
Unpaired_all(ps, usedIds) == ps

\* python.py 146: unpaired = [p for p in portraits if p.id not in used]
Unpaired(ps, usedIds) == SelectSeq(ps, LAMBDA p : p.id \notin usedIds)

\* the bug of putting the leftover's frame first
WithLeftover_front(fgs, unpaired) ==
    IF unpaired # <<>> THEN <<Frameglass(<<unpaired[1]>>)>> \o fgs ELSE fgs

\* python.py 147-149: the frame list after the leftover portrait is handled
WithLeftover(fgs, unpaired) ==
    IF unpaired # <<>> THEN Append(fgs, Frameglass(<<unpaired[1]>>)) ELSE fgs

\* op1gpt.py 73-80: while i < len(portraits), i counted from 0
RECURSIVE PairSequential(_, _, _)
PairSequential(ps, k, fgs) ==
    IF k < Len(ps)
    THEN IF k + 1 < Len(ps)
         THEN PairSequential(ps, k + 2, Append(fgs, Frameglass(<<ps[k + 1], ps[k + 2]>>)))
         ELSE PairSequential(ps, k + 1, Append(fgs, Frameglass(<<ps[k + 1]>>)))
    ELSE fgs

\* op1gpt.py create_frameglasses
create_frameglasses_op1gpt(ls, ps) == PairSequential(ps, 0, LandscapeFrames(ls))

\* the bug of running the portrait loop before the landscape loop
create_frameglasses_portraitsFirst(ls, ps) ==
    PairSequential(ps, 0, <<>>) \o LandscapeFrames(ls)

\* finalall.py create_frameglasses (the same code as op1gpt.py's)
create_frameglasses_finalall(ls, ps) == PairSequential(ps, 0, LandscapeFrames(ls))

\* naveen.py 63-65: an odd number of portraits loses its last one
DropOdd(ps) == IF Len(ps) % 2 # 0 THEN SubSeq(ps, 1, Len(ps) - 1) ELSE ps

\* naveen.py 67-70: for i in range(0, len(portraits), 2)
RECURSIVE PairNaveen(_, _, _)
PairNaveen(ps, k, fgs) ==
    IF k < Len(ps)
    THEN PairNaveen(ps, k + 2,
            Append(fgs, Frameglass_naveen(<<ps[k + 1].id, ps[k + 2].id>>,
                                          ps[k + 1].tags \cup ps[k + 2].tags)))
    ELSE fgs

\* naveen.py create_frameglasses
create_frameglasses_naveen(pts) ==
    LET ls == SelectSeq(pts, LAMBDA p : p.orientation = "L")
        ps == SelectSeq(pts, LAMBDA p : p.orientation = "P")
        lf == [k \in DOMAIN ls |-> Frameglass_naveen(<<ls[k].id>>, ls[k].tags)]
    IN  PairNaveen(DropOdd(ps), 0, lf)

\* the bug of looping while i <= j: the middle portrait is paired with itself
RECURSIVE PairEnds_inclusive(_, _, _, _)
PairEnds_inclusive(ps, lo, hi, fs) ==
    IF lo <= hi
    THEN PairEnds_inclusive(ps, lo + 1, hi - 1,
                            Append(fs, Frame(<<ps[lo + 1], ps[hi + 1]>>)))
    ELSE fs

\* Optimised.py 52-58: the two-pointer loop, i and j counted from 0
RECURSIVE PairEnds(_, _, _, _)
PairEnds(ps, lo, hi, fs) ==
    IF lo < hi
    THEN PairEnds(ps, lo + 1, hi - 1, Append(fs, Frame(<<ps[lo + 1], ps[hi + 1]>>)))
    ELSE IF lo = hi THEN Append(fs, Frame(<<ps[lo + 1]>>)) ELSE fs

\* Optimised.py create_frames, given portraits already sorted in place
create_frames(ls, sortedPs) ==
    PairEnds(sortedPs, 0, Len(sortedPs) - 1, [k \in DOMAIN ls |-> Frame(<<ls[k]>>)])

---------------------------------------------------------------------------
(* Score model *)

\* the bug of forgetting only_second
calculate_local_score_oneSided(fg1, fg2) ==
    Min2(Cardinality(fg1.tags \cap fg2.tags), Cardinality(fg1.tags \ fg2.tags))

\* python.py calculate_local_score (op1gpt.py and finalall.py hold the same code)
calculate_local_score(fg1, fg2) ==
    LET common == Cardinality(fg1.tags \cap fg2.tags)
        only_first == Cardinality(fg1.tags \ fg2.tags)
        only_second == Cardinality(fg2.tags \ fg1.tags)
    IN  Min3(common, only_first, only_second)

\* naveen.py compute_local_score, on two tag sets
compute_local_score(tags1, tags2) ==
    LET common == Cardinality(tags1 \cap tags2)
        only1 == Cardinality(tags1 \ tags2)
        only2 == Cardinality(tags2 \ tags1)
    IN  Min3(common, only1, only2)

\* the bug of counting the union (|) as the common tags
local_score_union(f1, f2) ==
    LET c == Cardinality(f1.tag_ids_set \cup f2.tag_ids_set)
    IN  Min3(c, f1.tag_count - c, f2.tag_count - c)

\* Optimised.py local_score: the differences come from the cached counts
local_score(f1, f2) ==
    LET c == Cardinality(f1.tag_ids_set \cap f2.tag_ids_set)
        o1 == f1.tag_count - c
        o2 == f2.tag_count - c
    IN  Min3(c, o1, o2)

\* python.py 172-175: total += ... for i in range(len - 1); k is i + 1
RECURSIVE TotalFrom(_, _, _)
TotalFrom(fgs, k, total) ==
    IF k > Len(fgs) - 1 THEN total
    ELSE TotalFrom(fgs, k + 1, total + calculate_local_score(fgs[k], fgs[k + 1]))

\* python.py calculate_total_score
calculate_total_score(fgs) == TotalFrom(fgs, 1, 0)

\* naveen.py 104-110
RECURSIVE GlobalFrom(_, _, _)
GlobalFrom(fgs, k, total_score) ==
    IF k > Len(fgs) - 1 THEN total_score
    ELSE GlobalFrom(fgs, k + 1,
                    total_score + compute_local_score(fgs[k].tags, fgs[k + 1].tags))

\* the bug of returning early for two frames as well
compute_global_score_early(ordered_frameglasses) ==
    IF Len(ordered_frameglasses) < 3 THEN 0
    ELSE GlobalFrom(ordered_frameglasses, 1, 0)

\* naveen.py compute_global_score, with its early return
compute_global_score(ordered_frameglasses) ==
    IF Len(ordered_frameglasses) < 2 THEN 0
    ELSE GlobalFrom(ordered_frameglasses, 1, 0)

\* Optimised.py 69-72
RECURSIVE ScoreFrom(_, _, _)
ScoreFrom(frames, k, score) ==
    IF k > Len(frames) - 1 THEN score
    ELSE ScoreFrom(frames, k + 1, score + local_score(frames[k], frames[k + 1]))

\* Optimised.py total_score
total_score(frames) == ScoreFrom(frames, 1, 0)

---------------------------------------------------------------------------
(* Ordering strategies *)

\* list(reversed(x)) and x[::-1]
Reversed(s) == [k \in DOMAIN s |-> s[Len(s) + 1 - k]]

\* python.py order_same: frameglasses[:]
order_same(fgs) == fgs

\* the bug of rotating by one instead of reversing
order_reverse_rotate(fgs) ==
    IF fgs = <<>> THEN fgs ELSE SubSeq(fgs, 2, Len(fgs)) \o <<fgs[1]>>

\* python.py order_reverse
order_reverse(fgs) == Reversed(fgs)

\* naveen.py order_frameglasses_same: frameglasses.copy()
order_frameglasses_same(fgs) == fgs

\* naveen.py order_frameglasses_reverse
order_frameglasses_reverse(fgs) == Reversed(fgs)

\* Optimised.py strat_same
strat_same(frames) == frames

\* Optimised.py strat_reverse
strat_reverse(frames) == Reversed(frames)

StrategyNames == {"same", "reverse"}

\* the strategies table of the running script, applied: strategies[sname](frameglasses)
ApplyStrategy(sname, fgs) ==
    CASE script \in SetScripts /\ sname = "same" -> order_same(fgs)
      [] script \in SetScripts /\ sname = "reverse" -> order_reverse(fgs)
      [] script = "naveen" /\ sname = "same" -> order_frameglasses_same(fgs)
      [] script = "naveen" /\ sname = "reverse" -> order_frameglasses_reverse(fgs)
      [] script = "Optimised" /\ sname = "same" -> strat_same(fgs)
      [] script = "Optimised" /\ sname = "reverse" -> strat_reverse(fgs)

\* the running script's scorer of a sequence
ScoreOf(ordered) ==
    CASE script \in SetScripts -> calculate_total_score(ordered)
      [] script = "naveen" -> compute_global_score(ordered)
      [] script = "Optimised" -> total_score(ordered)

---------------------------------------------------------------------------
(* Parsing: one action per line read.  The painting id is the 0-based      *)
(* line position.  The loop ends (ParseReturn) when the N announced by the *)
(* first line is reached; N is any number up to MaxPaintings.              *)

(* The other strategies *)

\* the rearrangements of a list
Rearrangements(s) ==
    LET n == Len(s)
    IN  {[k \in 1 .. n |-> s[p[k]]] :
            p \in {q \in [1 .. n -> 1 .. n] : \A a, b \in 1 .. n : a # b => q[a] # q[b]}}

\* python.py order_random (and the same code in the other scripts): a copy,
\* shuffled by the unseeded generator; any rearrangement can come out
order_random(fgs) == Rearrangements(fgs)

\* python.py order_by_tag_count: sorted(..., key=tag_count, reverse=True)
order_by_tag_count(fgs) == sorted_by_tag_count(fgs, TRUE)

\* op1gpt.py / finalall.py order_by_tag_count: sorted(..., key=-tag_count);
\* ascending in the negated count, equal counts keeping their input order
order_by_tag_count_neg(fgs) ==
    LET key == [k \in DOMAIN fgs |-> 0 - fgs[k].tag_count]
        pos == [k \in DOMAIN fgs |->
                  1 + Cardinality({j \in DOMAIN fgs :
                        key[j] < key[k] \/ (key[j] = key[k] /\ j < k)})]
    IN  [m \in DOMAIN fgs |-> fgs[CHOOSE k \in DOMAIN fgs : pos[k] = m]]

\* Optimised.py strat_by_tags: sorted(frames, key=tag_count)
strat_by_tags(frames) == sorted_by_tag_count(frames, FALSE)

\* naveen.py order_frameglasses_by_tag_count: sorted(..., key=len(fg.tags),
\* reverse=not ascending); a stable sort in either direction
order_frameglasses_by_tag_count(fgs, ascending) ==
    LET key == [k \in DOMAIN fgs |-> Cardinality(fgs[k].tags)]
        pos == [k \in DOMAIN fgs |->
                  1 + Cardinality({j \in DOMAIN fgs :
                        \/ (ascending /\ key[j] < key[k])
                        \/ (~ascending /\ key[j] > key[k])
                        \/ (key[j] = key[k] /\ j < k)})]
    IN  [m \in DOMAIN fgs |-> fgs[CHOOSE k \in DOMAIN fgs : pos[k] = m]]

\* naveen.py 212
random_trials == 3

\* Optimised.py 93 sets 1000; the model takes a limit that the catalogs
\* within its bounds exceed
LIMIT_CANDIDATES == 2

\* the limit as line 93 sets it, which no catalog of the model reaches
LIMIT_CANDIDATES_1000 == 1000

\* the model runs strat_greedy_fast under both (a run's limit is in
\* cand_limit from its start): the scaled limit for the runs in which the
\* window cuts the candidates, the source's for the runs in which it holds
\* them all
Limits == {LIMIT_CANDIDATES, LIMIT_CANDIDATES_1000}

\* op1gpt.py 136 sets 300 and 137 sets 50; scaled likewise
BATCH == 2

MIN_BATCH == 1

\* op1gpt.py 174: the scan of a batch stops at a local score of 8
BreakScore == 8

\* the bug of popping the head whatever was chosen
RemoveAt_head(s, k) == Tail(s)

\* s without its element at position k (list.pop(k - 1))
RemoveAt(s, k) == SubSeq(s, 1, k - 1) \o SubSeq(s, k + 1, Len(s))

\* max(range(len(frames)), key=tag_count): the first position of the largest
\* count, counted from 1
MaxTagCountPos(frames) ==
    CHOOSE k \in DOMAIN frames :
        /\ \A j \in DOMAIN frames : frames[j].tag_count <= frames[k].tag_count
        /\ \A j \in 1 .. k - 1 : frames[j].tag_count < frames[k].tag_count

\* python.py 222, op1gpt.py 152 and 163: best_score before the scan
best_score_init == 0 - 1

\* python.py 224-228: for idx in remaining, a set of the 0-based indexes
\* 0 .. n-1 less the placed ones.  CPython keeps a small non-negative int at
\* the slot of its own value, so the loop visits the indexes in increasing
\* order.  best_idx starts as None, written -1 here.
RECURSIVE ScanRemaining(_, _, _, _, _, _)
ScanRemaining(fgs, cur, rem, idx, best_score, best_idx) ==
    IF idx >= Len(fgs) THEN best_idx
    ELSE IF idx \notin rem
         THEN ScanRemaining(fgs, cur, rem, idx + 1, best_score, best_idx)
         ELSE LET score == calculate_local_score(cur, fgs[idx + 1])
              IN  IF score > best_score
                  THEN ScanRemaining(fgs, cur, rem, idx + 1, score, idx)
                  ELSE ScanRemaining(fgs, cur, rem, idx + 1, best_score, best_idx)

\* the bug of comparing with >=: the last of the best candidates is taken
BestIdx_lastOfBest(fgs, cur, rem) ==
    CHOOSE idx \in rem :
        /\ \A j \in rem : calculate_local_score(cur, fgs[j + 1])
                            <= calculate_local_score(cur, fgs[idx + 1])
        /\ \A j \in rem : j > idx =>
              calculate_local_score(cur, fgs[j + 1])
                < calculate_local_score(cur, fgs[idx + 1])

\* the bug of a scan that starts from a best score of 0, which no candidate
\* of score 0 beats
BestIdx_fromZero(fgs, cur, rem) == ScanRemaining(fgs, cur, rem, 0, 0, 0 - 1)

\* python.py 221-228: best_idx after the scan
BestIdx(fgs, cur, rem) == ScanRemaining(fgs, cur, rem, 0, best_score_init, 0 - 1)

\* the bug of slicing from the limit on instead of up to it
sample_tail(rem) == SubSeq(rem, cand_limit + 1, Len(rem))

\* Optimised.py 95: the candidates examined
sample(rem) ==
    IF Len(rem) > cand_limit THEN SubSeq(rem, 1, cand_limit) ELSE rem

\* the bug of a max() that keeps the last of the best candidates
NextFramePos_lastOfBest(cur, smp) ==
    CHOOSE k \in DOMAIN smp :
        /\ \A j \in DOMAIN smp : local_score(cur, smp[j]) <= local_score(cur, smp[k])
        /\ \A j \in k + 1 .. Len(smp) :
              local_score(cur, smp[j]) < local_score(cur, smp[k])

\* Optimised.py 96: max(sample, key=local_score(current, f)), the first of
\* the best; its position in sample, counted from 1
NextFramePos(cur, smp) ==
    CHOOSE k \in DOMAIN smp :
        /\ \A j \in DOMAIN smp : local_score(cur, smp[j]) <= local_score(cur, smp[k])
        /\ \A j \in 1 .. k - 1 : local_score(cur, smp[j]) < local_score(cur, smp[k])

\* op1gpt.py 152-156: the scan of all of remaining; k is i + 1
RECURSIVE ScanAll(_, _, _, _, _)
ScanAll(rem, cur, k, best_score, best_idx) ==
    IF k > Len(rem) THEN best_idx
    ELSE LET s == calculate_local_score(cur, rem[k])
         IN  IF s > best_score THEN ScanAll(rem, cur, k + 1, s, k - 1)
             ELSE ScanAll(rem, cur, k + 1, best_score, best_idx)

\* op1gpt.py 164: remaining.sort(key=abs(tag_count - current.tag_count)), stable
SortedByDistance(rem, cur) ==
    LET key == [k \in DOMAIN rem |->
                  IF rem[k].tag_count >= cur.tag_count
                  THEN rem[k].tag_count - cur.tag_count
                  ELSE cur.tag_count - rem[k].tag_count]
        pos == [k \in DOMAIN rem |->
                  1 + Cardinality({j \in DOMAIN rem :
                        key[j] < key[k] \/ (key[j] = key[k] /\ j < k)})]
    IN  [m \in DOMAIN rem |-> rem[CHOOSE k \in DOMAIN rem : pos[k] = m]]

\* op1gpt.py 167
BatchLimit(rem) == Min2(BATCH, Len(rem))

\* op1gpt.py 168-175: the scan of the first limit candidates, left as soon as
\* the best score reaches BreakScore; k is i + 1
RECURSIVE ScanBatch(_, _, _, _, _, _)
ScanBatch(rem, cur, k, limit, best_score, best_idx) ==
    IF k > limit THEN best_idx
    ELSE LET s == calculate_local_score(cur, rem[k])
             bs == IF s > best_score THEN s ELSE best_score
             bi == IF s > best_score THEN k - 1 ELSE best_idx
         IN  IF bs >= BreakScore THEN bi
             ELSE ScanBatch(rem, cur, k + 1, limit, bs, bi)

---------------------------------------------------------------------------

LinesRead == IF script = "naveen" THEN Len(paintings)
             ELSE Len(landscapes) + Len(portraits)

buildVars == <<portraits_sorted, used, i, frameglasses, results>>

\* python.py / op1gpt.py / finalall.py parse_input, one iteration of the loop
parse_input(orientation, tags) ==
    /\ pc = "parse"
    /\ script \in SetScripts
    /\ LinesRead < MaxPaintings
    /\ LET painting == Painting(LinesRead, orientation, tags)
       IN  IF orientation = "L"
           THEN /\ landscapes' = Append(landscapes, painting)
                /\ UNCHANGED portraits
           ELSE /\ portraits' = Append(portraits, painting)
                /\ UNCHANGED landscapes
    /\ catalog' = Append(catalog, [orientation |-> orientation, tags |-> tags])
    /\ UNCHANGED <<script, pc, paintings, tag2id>>
    /\ UNCHANGED buildVars
    /\ UNCHANGED orderVars
    /\ UNCHANGED shuffled
    /\ UNCHANGED <<batchVars, refVars>>
    /\ UNCHANGED cand_limit

\* naveen.py parse_input, one iteration of the loop
parse_input_naveen(orientation, tags) ==
    /\ pc = "parse"
    /\ script = "naveen"
    /\ LinesRead < MaxPaintings
    /\ paintings' = Append(paintings, Painting_naveen(LinesRead, orientation, tags))
    /\ catalog' = Append(catalog, [orientation |-> orientation, tags |-> tags])
    /\ UNCHANGED <<script, pc, landscapes, portraits, tag2id>>
    /\ UNCHANGED buildVars
    /\ UNCHANGED orderVars
    /\ UNCHANGED shuffled
    /\ UNCHANGED <<batchVars, refVars>>
    /\ UNCHANGED cand_limit

\* the bug of reading len(tag2id) once per line: the new tags of a line share an id
NewIds_sameId(t2i, tags) ==
    {[t \in tags \ DOMAIN t2i |-> Cardinality(DOMAIN t2i)]}

\* Optimised.py 37-40: the tags of a line that are not in tag2id yet get the
\* next ids, in the order in which the line lists them (any order)
NewIds(t2i, tags) ==
    LET fresh == tags \ DOMAIN t2i
        base == Cardinality(DOMAIN t2i)
    IN  {f \in [fresh -> base .. base + Cardinality(fresh) - 1] :
            \A t, u \in fresh : t # u => f[t] # f[u]}

\* Optimised.py parse_input, one iteration of the loop
parse_input_Optimised(ori, tags) ==
    /\ pc = "parse"
    /\ script = "Optimised"
    /\ LinesRead < MaxPaintings
    /\ \E f \in NewIds(tag2id, tags) :
          /\ tag2id' = tag2id @@ f
          /\ LET tag_ids == {(tag2id @@ f)[t] : t \in tags}
                 p == Painting_Optimised(LinesRead, ori, tag_ids)
             IN  IF ori = "L"
                 THEN /\ landscapes' = Append(landscapes, p)
                      /\ UNCHANGED portraits
                 ELSE /\ portraits' = Append(portraits, p)
                      /\ UNCHANGED landscapes
    /\ catalog' = Append(catalog, [orientation |-> ori, tags |-> tags])
    /\ UNCHANGED <<script, pc, paintings>>
    /\ UNCHANGED buildVars
    /\ UNCHANGED orderVars
    /\ UNCHANGED shuffled
    /\ UNCHANGED <<batchVars, refVars>>
    /\ UNCHANGED cand_limit

\* the parsing loop has read its N lines and parse_input returns
ParseReturn ==
    /\ pc = "parse"
    /\ pc' = "parsed"
    /\ UNCHANGED <<script, paintings, landscapes, portraits, tag2id, catalog>>
    /\ UNCHANGED buildVars
    /\ UNCHANGED orderVars
    /\ UNCHANGED shuffled
    /\ UNCHANGED <<batchVars, refVars>>
    /\ UNCHANGED cand_limit

---------------------------------------------------------------------------
(* Building the frames *)

parseVars == <<script, paintings, landscapes, portraits, tag2id, catalog>>

\* python.py 107-118: the landscape frames, the early return, the sort
create_frameglasses_begin ==
    /\ pc = "parsed"
    /\ script = "python"
    /\ frameglasses' = LandscapeFrames(landscapes)
    /\ IF portraits = <<>>
       THEN /\ pc' = "built"
            /\ UNCHANGED <<used, portraits_sorted, i>>
       ELSE /\ pc' = "pairing"
            /\ used' = {}
            /\ portraits_sorted' = sorted_by_tag_count(portraits, TRUE)
            /\ i' = 0
    /\ UNCHANGED parseVars
    /\ UNCHANGED results
    /\ UNCHANGED orderVars
    /\ UNCHANGED shuffled
    /\ UNCHANGED <<batchVars, refVars>>
    /\ UNCHANGED cand_limit

\* python.py 120-143: one iteration of for i, p1 in enumerate(portraits_sorted)
create_frameglasses_pair ==
    /\ pc = "pairing"
    /\ i < Len(portraits_sorted)
    /\ LET p1 == portraits_sorted[i + 1]
           best_pair == FindBestPair(p1, portraits_sorted, used, i + 2,
                                     None, PairScoreInit)
       IN  IF p1.id \notin used /\ best_pair # None
           THEN /\ frameglasses' = Append(frameglasses, Frameglass(<<p1, best_pair>>))
                /\ used' = used \cup {p1.id, best_pair.id}
           ELSE UNCHANGED <<frameglasses, used>>
    /\ i' = i + 1
    /\ UNCHANGED parseVars
    /\ UNCHANGED <<pc, portraits_sorted, results>>
    /\ UNCHANGED orderVars
    /\ UNCHANGED shuffled
    /\ UNCHANGED <<batchVars, refVars>>
    /\ UNCHANGED cand_limit

\* python.py 145-151: the leftover portrait, and the return
create_frameglasses_end ==
    /\ pc = "pairing"
    /\ i = Len(portraits_sorted)
    /\ frameglasses' = WithLeftover(frameglasses, Unpaired(portraits, used))
    /\ pc' = "built"
    /\ UNCHANGED parseVars
    /\ UNCHANGED <<portraits_sorted, used, i, results>>
    /\ UNCHANGED orderVars
    /\ UNCHANGED shuffled
    /\ UNCHANGED <<batchVars, refVars>>
    /\ UNCHANGED cand_limit

\* op1gpt.py and finalall.py: create_frameglasses(landscapes, portraits)
create_frameglasses_sequential ==
    /\ pc = "parsed"
    /\ script \in {"op1gpt", "finalall"}
    /\ frameglasses' = IF script = "op1gpt"
                       THEN create_frameglasses_op1gpt(landscapes, portraits)
                       ELSE create_frameglasses_finalall(landscapes, portraits)
    /\ pc' = "built"
    /\ UNCHANGED parseVars
    /\ UNCHANGED <<portraits_sorted, used, i, results>>
    /\ UNCHANGED orderVars
    /\ UNCHANGED shuffled
    /\ UNCHANGED <<batchVars, refVars>>
    /\ UNCHANGED cand_limit

\* naveen.py evaluate_strategy 135: frameglasses = create_frameglasses(paintings)
create_frameglasses_dropping ==
    /\ pc = "parsed"
    /\ script = "naveen"
    /\ paintings # <<>>
    /\ frameglasses' = create_frameglasses_naveen(paintings)
    /\ pc' = "built"
    /\ UNCHANGED parseVars
    /\ UNCHANGED <<portraits_sorted, used, i, results>>
    /\ UNCHANGED orderVars
    /\ UNCHANGED shuffled
    /\ UNCHANGED <<batchVars, refVars>>
    /\ UNCHANGED cand_limit

\* naveen.py process_single_file_live 185-187: with no painting parsed it
\* returns (None, -1, {}) and evaluates no strategy
process_single_file_live_empty ==
    /\ pc = "parsed"
    /\ script = "naveen"
    /\ paintings = <<>>
    /\ pc' = "failed"
    /\ run_best_score' = 0 - 1
    /\ UNCHANGED parseVars
    /\ UNCHANGED <<portraits_sorted, used, i, frameglasses, results>>
    /\ UNCHANGED loopVars
    /\ UNCHANGED shuffled
    /\ UNCHANGED <<batchVars, refVars>>
    /\ UNCHANGED cand_limit

\* Optimised.py process_file_worker 115: frames = create_frames(landscapes, portraits);
\* line 51 sorts the caller's portraits list in place
create_frames_call ==
    /\ pc = "parsed"
    /\ script = "Optimised"
    /\ portraits' = sorted_by_tag_count(portraits, FALSE)
    /\ frameglasses' = create_frames(landscapes, portraits')
    /\ pc' = "built"
    /\ UNCHANGED <<script, paintings, landscapes, tag2id, catalog>>
    /\ UNCHANGED <<portraits_sorted, used, i, results>>
    /\ UNCHANGED orderVars
    /\ UNCHANGED shuffled
    /\ UNCHANGED <<batchVars, refVars>>
    /\ UNCHANGED cand_limit

---------------------------------------------------------------------------
(* Ordering and scoring: one strategy is applied to the built frames and   *)
(* its result scored (python.py 302-303, naveen.py 138-141, Optimised.py   *)
(* 139-140, op1gpt.py 253-254); the result is kept under its name.         *)

RunStrategy(sname) ==
    /\ pc = "built"
    /\ sname \notin DOMAIN results
    /\ LET ordered == ApplyStrategy(sname, frameglasses)
       IN  results' = results @@ (sname :> [ordered |-> ordered,
                                            score |-> ScoreOf(ordered)])
    /\ UNCHANGED parseVars
    /\ UNCHANGED <<pc, portraits_sorted, used, i, frameglasses>>
    /\ UNCHANGED orderVars
    /\ UNCHANGED shuffled
    /\ UNCHANGED <<batchVars, refVars>>
    /\ UNCHANGED cand_limit

---------------------------------------------------------------------------
(* The "run all strategies" loop of each script: python.py solve_file,      *)
(* finalall.py solve_file_all_strategies, Optimised.py process_file_worker  *)
(* with strategy "1", naveen.py process_single_file_live and op1gpt.py      *)
(* solve_all_files with choice '1'.  One action per iteration; a greedy     *)
(* strategy takes one action per frame it places.                           *)

\* the bug of working on the list passed instead of a copy of it
\* (result = frameglasses, remaining = frames): the caller's list is the
\* list the strategy shuffled, sorted or popped from
ArgumentAfter_inPlace(arg, working) == working

\* the caller's list after a strategy worked: every strategy takes a copy
\* first (frameglasses[:], frames[:], .copy(), sorted(), list(reversed()),
\* [::-1]) and shuffles, sorts or pops from the copy only, and no strategy
\* assigns to a frame; the list passed keeps its elements
ArgumentAfter(arg, working) == arg

\* the bug of trying the reversed order before the input order
StrategyTable_reverseFirst ==
    CASE script = "python" -> <<"reverse", "same", "random", "by_tags", "greedy">>
      [] script = "finalall" -> <<"reverse", "same", "random", "by_tags">>
      [] script = "Optimised" -> <<"reverse", "same", "random", "by_tags", "greedy">>
      [] script = "op1gpt" ->
             <<"reverse", "same", "random", "by_tags", "greedy_similarity">>
      [] script = "naveen" ->
             <<"Reverse order", "Same order", "Random order",
               "Ascending tag count", "Descending tag count">>

\* the strategies in the order in which the loop takes them (the dict and
\* the lists keep their insertion order)
StrategyTable ==
    CASE script = "python" -> <<"same", "reverse", "random", "by_tags", "greedy">>
      [] script = "finalall" -> <<"same", "reverse", "random", "by_tags">>
      [] script = "Optimised" -> <<"same", "reverse", "random", "by_tags", "greedy">>
      [] script = "op1gpt" ->
             <<"same", "reverse", "random", "by_tags", "greedy_similarity">>
      [] script = "naveen" ->
             <<"Same order", "Reverse order", "Random order",
               "Ascending tag count", "Descending tag count">>

RandomNames == {"random", "Random order"}

GreedyNames == {"greedy", "greedy_similarity"}

\* the strategy of the current iteration
NextStrategy == StrategyTable[sidx + 1]

\* the deterministic, single-step strategies of the table, applied
OrderBy(name, fgs) ==
    CASE script = "naveen" /\ name = "Same order" -> order_frameglasses_same(fgs)
      [] script = "naveen" /\ name = "Reverse order" -> order_frameglasses_reverse(fgs)
      [] script = "naveen" /\ name = "Ascending tag count" ->
             order_frameglasses_by_tag_count(fgs, TRUE)
      [] script = "naveen" /\ name = "Descending tag count" ->
             order_frameglasses_by_tag_count(fgs, FALSE)
      [] script = "Optimised" /\ name = "same" -> strat_same(fgs)
      [] script = "Optimised" /\ name = "reverse" -> strat_reverse(fgs)
      [] script = "Optimised" /\ name = "by_tags" -> strat_by_tags(fgs)
      [] script \in SetScripts /\ name = "same" -> order_same(fgs)
      [] script \in SetScripts /\ name = "reverse" -> order_reverse(fgs)
      [] script = "python" /\ name = "by_tags" -> order_by_tag_count(fgs)
      [] script \in {"op1gpt", "finalall"} /\ name = "by_tags" ->
             order_by_tag_count_neg(fgs)

\* the frames an iteration works on: naveen.py's evaluate_strategy and
\* op1gpt.py's solve_file_single_strategy build them again on every call,
\* the other scripts build them once before the loop
BuiltFrames ==
    CASE script = "naveen" -> create_frameglasses_naveen(paintings)
      [] script = "op1gpt" -> create_frameglasses_op1gpt(landscapes, portraits)
      [] OTHER -> frameglasses

\* get_output_line: the ids of a frame, in the frame's order
OutputLine(f) ==
    IF script = "naveen" THEN f.painting_ids
    ELSE [k \in DOMAIN f.paintings |-> f.paintings[k].id]

\* write_output: the count, then one line of ids per frame
write_output(fgs) ==
    [count |-> Len(fgs), lines |-> [k \in DOMAIN fgs |-> OutputLine(fgs[k])]]

\* the bug of letting an equal score replace the kept result
Improves_orEqual(score, best) == score >= best

\* python.py 308, finalall.py 235, Optimised.py 131, naveen.py 242,
\* op1gpt.py 298: if score > best_score
Improves(score, best) == score > best

\* the end of an iteration: the result is recorded and compared with the
\* best so far.  op1gpt.py's solve_file_single_strategy has written its
\* result to the output file before the comparison, and keeps no ordering.
Keep(name, ord, score) ==
    /\ results' = results @@ (name :> [ordered |-> ord, score |-> score])
    /\ sidx' = sidx + 1
    /\ run_best_score' = IF Improves(score, run_best_score) THEN score
                         ELSE run_best_score
    /\ IF script = "op1gpt"
       THEN /\ output' = write_output(ord)
            /\ UNCHANGED best_ordered
       ELSE /\ best_ordered' = IF Improves(score, run_best_score) THEN ord
                                ELSE best_ordered
            /\ UNCHANGED output

\* the locals are set before the loop: best_score = -1, best_ordered = None
run_all_begin ==
    /\ \/ script \in {"python", "finalall", "Optimised"} /\ pc = "built"
       \/ script = "naveen" /\ pc = "parsed" /\ paintings # <<>>
       \/ script = "op1gpt" /\ pc = "parsed"
    /\ pc' = "loop"
    /\ run_best_score' = 0 - 1
    /\ best_ordered' = NoList
    /\ sidx' = 0
    /\ UNCHANGED parseVars
    /\ UNCHANGED <<portraits_sorted, used, i, frameglasses, results>>
    /\ UNCHANGED <<output, remaining, result, trial, best_random>>
    /\ UNCHANGED shuffled
    /\ UNCHANGED <<batchVars, refVars>>
    /\ UNCHANGED cand_limit

\* an iteration with same, reverse or a sort by tag count
try_strategy ==
    /\ pc = "loop"
    /\ sidx < Len(StrategyTable)
    /\ NextStrategy \notin RandomNames \cup GreedyNames
    /\ LET fg == BuiltFrames
           ord == OrderBy(NextStrategy, fg)
       IN  /\ frameglasses' = ArgumentAfter(fg, ord)
           /\ Keep(NextStrategy, ord, ScoreOf(ord))
    /\ UNCHANGED parseVars
    /\ UNCHANGED <<pc, portraits_sorted, used, i>>
    /\ UNCHANGED <<remaining, result, trial, best_random>>
    /\ UNCHANGED shuffled
    /\ UNCHANGED <<batchVars, refVars>>
    /\ UNCHANGED cand_limit

\* an iteration with the random strategy (not naveen.py, which makes trials)
try_random ==
    /\ pc = "loop"
    /\ sidx < Len(StrategyTable)
    /\ script # "naveen"
    /\ NextStrategy \in RandomNames
    /\ LET fg == BuiltFrames
       IN  \E ord \in order_random(fg) :
              /\ frameglasses' = ArgumentAfter(fg, ord)
              /\ shuffled' = ord
              /\ Keep(NextStrategy, ord, ScoreOf(ord))
    /\ UNCHANGED parseVars
    /\ UNCHANGED <<pc, portraits_sorted, used, i>>
    /\ UNCHANGED <<remaining, result, trial, best_random>>
    /\ UNCHANGED <<batchVars, refVars>>
    /\ UNCHANGED cand_limit

\* naveen.py 223-229: one random trial
random_trial ==
    /\ pc = "loop"
    /\ sidx < Len(StrategyTable)
    /\ script = "naveen"
    /\ NextStrategy \in RandomNames
    /\ trial < random_trials
    /\ LET fg == BuiltFrames
       IN  \E ordering \in order_random(fg) :
              LET score == compute_global_score(ordering)
              IN  /\ frameglasses' = ArgumentAfter(fg, ordering)
                  /\ shuffled' = ordering
                  /\ best_random' = IF score > best_random.score
                                    THEN [score |-> score, ordering |-> ordering]
                                    ELSE best_random
    /\ trial' = trial + 1
    /\ UNCHANGED parseVars
    /\ UNCHANGED <<pc, portraits_sorted, used, i, results>>
    /\ UNCHANGED <<run_best_score, sidx, best_ordered, output, remaining, result>>
    /\ UNCHANGED <<batchVars, refVars>>
    /\ UNCHANGED cand_limit

\* naveen.py 230-245: the best trial is the random strategy's result
\* (231: ordering = best_random_ordering)
random_trials_end ==
    /\ pc = "loop"
    /\ sidx < Len(StrategyTable)
    /\ script = "naveen"
    /\ NextStrategy \in RandomNames
    /\ trial = random_trials
    /\ Keep(NextStrategy, best_random.ordering, best_random.score)
    /\ trial' = 0
    /\ best_random' = [score |-> 0 - 1, ordering |-> NoList]
    /\ UNCHANGED parseVars
    /\ UNCHANGED <<pc, portraits_sorted, used, i, frameglasses>>
    /\ UNCHANGED <<remaining, result>>
    /\ shuffled' = best_random.ordering
    /\ UNCHANGED <<batchVars, refVars>>
    /\ UNCHANGED cand_limit

\* the frame placed last: python.py's ordered[-1], the other scripts' current
current == result[Len(result)]

\* python.py order_greedy 209-217, called by the loop
order_greedy_begin ==
    /\ pc = "loop"
    /\ sidx < Len(StrategyTable)
    /\ script = "python"
    /\ NextStrategy = "greedy"
    /\ IF frameglasses = <<>>
       THEN /\ Keep(NextStrategy, <<>>, ScoreOf(<<>>))
            /\ UNCHANGED <<pc, remaining, result>>
       ELSE LET start_idx == MaxTagCountPos(frameglasses) - 1
            IN  /\ result' = <<frameglasses[start_idx + 1]>>
                /\ remaining' = (0 .. Len(frameglasses) - 1) \ {start_idx}
                /\ pc' = "greedy"
                /\ UNCHANGED <<results, sidx, run_best_score, best_ordered, output>>
    /\ UNCHANGED parseVars
    /\ UNCHANGED <<portraits_sorted, used, i, frameglasses, trial, best_random>>
    /\ UNCHANGED shuffled
    /\ UNCHANGED <<batchVars, refVars>>
    /\ UNCHANGED cand_limit

\* python.py 219-232: one iteration of while remaining
order_greedy_step ==
    /\ pc = "greedy"
    /\ script = "python"
    /\ remaining # {}
    /\ LET best_idx == BestIdx(frameglasses, current, remaining)
       IN  IF best_idx # 0 - 1
           THEN /\ result' = Append(result, frameglasses[best_idx + 1])
                /\ remaining' = remaining \ {best_idx}
           ELSE UNCHANGED <<result, remaining>>
    /\ UNCHANGED parseVars
    /\ UNCHANGED <<pc, portraits_sorted, used, i, frameglasses, results>>
    /\ UNCHANGED <<run_best_score, sidx, best_ordered, output, trial, best_random>>
    /\ UNCHANGED shuffled
    /\ UNCHANGED <<batchVars, refVars>>
    /\ UNCHANGED cand_limit

\* Optimised.py strat_greedy_fast 85-91, called by the loop
strat_greedy_fast_begin ==
    /\ pc = "loop"
    /\ sidx < Len(StrategyTable)
    /\ script = "Optimised"
    /\ NextStrategy = "greedy"
    /\ IF frameglasses = <<>>
       THEN /\ Keep(NextStrategy, <<>>, ScoreOf(<<>>))
            /\ UNCHANGED <<pc, remaining, result>>
       ELSE LET idx == MaxTagCountPos(frameglasses)
            IN  /\ result' = <<frameglasses[idx]>>
                /\ remaining' = RemoveAt(frameglasses, idx)
                /\ pc' = "greedy"
                /\ UNCHANGED <<results, sidx, run_best_score, best_ordered, output>>
    /\ frameglasses' = ArgumentAfter(frameglasses, remaining')
    /\ UNCHANGED parseVars
    /\ UNCHANGED <<portraits_sorted, used, i, trial, best_random>>
    /\ UNCHANGED shuffled
    /\ UNCHANGED <<batchVars, refVars>>
    /\ UNCHANGED cand_limit

\* Optimised.py 94-99: one iteration of while remaining; remove() takes out
\* the chosen frame itself, the frames being distinct objects
strat_greedy_fast_step ==
    /\ pc = "greedy"
    /\ script = "Optimised"
    /\ remaining # <<>>
    /\ LET k == NextFramePos(current, sample(remaining))
       IN  /\ result' = Append(result, sample(remaining)[k])
           /\ remaining' = RemoveAt(remaining, k)
    /\ frameglasses' = ArgumentAfter(frameglasses, remaining')
    /\ UNCHANGED parseVars
    /\ UNCHANGED <<pc, portraits_sorted, used, i, results>>
    /\ UNCHANGED <<run_best_score, sidx, best_ordered, output, trial, best_random>>
    /\ UNCHANGED shuffled
    /\ UNCHANGED <<batchVars, refVars>>
    /\ UNCHANGED cand_limit

\* op1gpt.py order_greedy_similarity 129-134, called by
\* solve_file_single_strategy after it parsed and built: pop(0) raises
\* IndexError on an empty list, and nothing catches it
order_greedy_similarity_begin ==
    /\ pc = "loop"
    /\ sidx < Len(StrategyTable)
    /\ script = "op1gpt"
    /\ NextStrategy = "greedy_similarity"
    /\ IF BuiltFrames = <<>>
       THEN /\ pc' = "error"
            /\ UNCHANGED <<remaining, result>>
       ELSE /\ result' = <<BuiltFrames[1]>>
            /\ remaining' = Tail(BuiltFrames)
            /\ pc' = "greedy"
    /\ frameglasses' = ArgumentAfter(BuiltFrames, remaining')
    /\ UNCHANGED parseVars
    /\ UNCHANGED <<portraits_sorted, used, i, results>>
    /\ UNCHANGED <<run_best_score, sidx, best_ordered, output, trial, best_random>>
    /\ UNCHANGED shuffled
    /\ UNCHANGED <<batchVars, refVars>>
    /\ UNCHANGED cand_limit

\* the list op1gpt.py's step scans: remaining as it is (151-156), or sorted
\* in place by the distance of the tag counts (164)
WorkingRemaining ==
    IF Len(remaining) <= MIN_BATCH THEN remaining
    ELSE SortedByDistance(remaining, current)

\* op1gpt.py 152-157 and 166-177: the index, counted from 0, of the frame popped
BestIndex ==
    IF Len(remaining) <= MIN_BATCH
    THEN ScanAll(remaining, current, 1, best_score_init, 0)
    ELSE ScanBatch(WorkingRemaining, current, 1, BatchLimit(WorkingRemaining),
                   best_score_init, 0)

\* op1gpt.py 149-181: one iteration of while remaining
order_greedy_similarity_step ==
    /\ pc = "greedy"
    /\ script = "op1gpt"
    /\ remaining # <<>>
    /\ result' = Append(result, WorkingRemaining[BestIndex + 1])
    /\ remaining' = RemoveAt(WorkingRemaining, BestIndex + 1)
    /\ frameglasses' = ArgumentAfter(frameglasses, remaining')
    /\ UNCHANGED parseVars
    /\ UNCHANGED <<pc, portraits_sorted, used, i, results>>
    /\ UNCHANGED <<run_best_score, sidx, best_ordered, output, trial, best_random>>
    /\ UNCHANGED shuffled
    /\ UNCHANGED <<batchVars, refVars>>
    /\ UNCHANGED cand_limit

\* the greedy strategy returns its list, and the iteration ends as the
\* others; the strategy's locals are gone
greedy_return ==
    /\ pc = "greedy"
    /\ IF script = "python" THEN remaining = {} ELSE remaining = <<>>
    /\ Keep(NextStrategy, result, ScoreOf(result))
    /\ pc' = "loop"
    /\ result' = <<>>
    /\ remaining' = <<>>
    /\ UNCHANGED parseVars
    /\ UNCHANGED <<portraits_sorted, used, i, frameglasses, trial, best_random>>
    /\ UNCHANGED shuffled
    /\ UNCHANGED <<batchVars, refVars>>
    /\ UNCHANGED cand_limit

\* after the loop: python.py 314, finalall.py 240, Optimised.py 134 and
\* naveen.py 253 write the kept ordering (len(None) would raise);
\* op1gpt.py 300 only adds best_score to the total
run_all_end ==
    /\ pc = "loop"
    /\ sidx = Len(StrategyTable)
    /\ IF script = "op1gpt"
       THEN /\ pc' = "done"
            /\ UNCHANGED output
       ELSE IF best_ordered = NoList
            THEN /\ pc' = "error"
                 /\ UNCHANGED output
            ELSE /\ pc' = "done"
                 /\ output' = write_output(best_ordered)
    /\ UNCHANGED parseVars
    /\ UNCHANGED <<portraits_sorted, used, i, frameglasses, results>>
    /\ UNCHANGED <<run_best_score, sidx, best_ordered, remaining, result, trial,
                   best_random>>
    /\ UNCHANGED shuffled
    /\ UNCHANGED <<batchVars, refVars>>
    /\ UNCHANGED cand_limit

---------------------------------------------------------------------------
(* Specifications *)

\* no batch is running
InitNoBatch ==
    /\ input_files = <<>>
    /\ choice = ""
    /\ dicts = <<>>
    /\ tasks = <<>>
    /\ output_dir = <<>>
    /\ scores_times = <<>>
    /\ completed = 0
    /\ total_score_sum = 0
    /\ main_pc = "idle"

\* no refinement is running
InitNoRefiner ==
    /\ ref_seq = <<>>
    /\ ref_i = 0
    /\ ref_passes = 0
    /\ ref_swaps = 0
    /\ ref_total = 0
    /\ ref_runs = <<>>

\* before the ordering loop starts its locals hold nothing
InitLocals ==
    /\ sidx = 0
    /\ run_best_score = 0
    /\ best_ordered = NoList
    /\ output = NoFile
    /\ remaining = <<>>
    /\ result = <<>>
    /\ trial = 0
    /\ best_random = [score |-> 0 - 1, ordering |-> NoList]
    /\ shuffled = NoList

InitBuild ==
    /\ script \in Scripts
    /\ pc = "parse"
    /\ paintings = <<>>
    /\ landscapes = <<>>
    /\ portraits = <<>>
    /\ tag2id = EmptyMap
    /\ portraits_sorted = <<>>
    /\ used = {}
    /\ i = 0
    /\ frameglasses = <<>>
    /\ results = EmptyMap
    /\ catalog = <<>>
    /\ InitLocals
    /\ cand_limit = LIMIT_CANDIDATES
    /\ InitNoBatch
    /\ InitNoRefiner

NextBuild ==
    \/ \E o \in Orientations, ts \in SUBSET BuildTags : parse_input(o, ts)
    \/ \E o \in Orientations, ts \in SUBSET BuildTags : parse_input_naveen(o, ts)
    \/ \E o \in Orientations, ts \in SUBSET BuildTags : parse_input_Optimised(o, ts)
    \/ ParseReturn
    \/ create_frameglasses_begin
    \/ create_frameglasses_pair
    \/ create_frameglasses_end
    \/ create_frameglasses_sequential
    \/ create_frameglasses_dropping
    \/ process_single_file_live_empty
    \/ create_frames_call
    \/ \E sname \in StrategyNames : RunStrategy(sname)

SpecBuild == InitBuild /\ [][NextBuild]_vars

---------------------------------------------------------------------------
(* SpecScore: the state after parsing and building a catalog of up to      *)
(* MaxFrames landscapes whose tags come from ScoreTags, for each script     *)
(* with its own scorer.  A landscape becomes one frame, so the frames'     *)
(* tag sets range over every subset of ScoreTags.                          *)

ScoreScripts == {"python", "naveen", "Optimised"}

\* the line, counted from 1, in which tag t is first listed
FirstLine(ts, t) == CHOOSE j \in DOMAIN ts : t \in ts[j] /\ \A h \in 1 .. j - 1 : t \notin ts[h]

\* the bug of reading len(tag2id) once per line: the new tags of a line share an id
TagIndexes_sameId(ts) ==
    LET seen == UNION {ts[j] : j \in DOMAIN ts}
    IN  {[t \in seen |->
            Cardinality(UNION {ts[h] : h \in 1 .. FirstLine(ts, t) - 1})]}

\* the tag2id mappings Optimised.py's parse_input can end with on the lines ts:
\* ids 0 .. T-1 handed out in order of first appearance
TagIndexes(ts) ==
    LET seen == UNION {ts[j] : j \in DOMAIN ts}
    IN  {f \in [seen -> 0 .. Cardinality(seen) - 1] :
            /\ \A t, u \in seen : t # u => f[t] # f[u]
            /\ \A t, u \in seen : FirstLine(ts, t) < FirstLine(ts, u) => f[t] < f[u]}

InitScore ==
    /\ script \in ScoreScripts
    /\ pc = "built"
    /\ portraits = <<>>
    /\ portraits_sorted = <<>>
    /\ used = {}
    /\ i = 0
    /\ results = EmptyMap
    /\ InitLocals
    /\ cand_limit = LIMIT_CANDIDATES
    /\ InitNoBatch
    /\ InitNoRefiner
    /\ \E k \in 0 .. MaxFrames : \E ts \in [1 .. k -> SUBSET ScoreTags] :
        /\ catalog = [j \in 1 .. k |-> [orientation |-> "L", tags |-> ts[j]]]
        /\
          CASE script = "python" ->
                 /\ paintings = <<>>
                 /\ tag2id = EmptyMap
                 /\ landscapes = [j \in 1 .. k |-> Painting(j - 1, "L", ts[j])]
                 /\ frameglasses = LandscapeFrames(landscapes)
            [] script = "naveen" ->
                 /\ k >= 1
                 /\ paintings = [j \in 1 .. k |-> Painting_naveen(j - 1, "L", ts[j])]
                 /\ tag2id = EmptyMap
                 /\ landscapes = <<>>
                 /\ frameglasses = create_frameglasses_naveen(paintings)
            [] script = "Optimised" ->
                 /\ paintings = <<>>
                 /\ tag2id \in TagIndexes(ts)
                 /\ landscapes = [j \in 1 .. k |->
                        Painting_Optimised(j - 1, "L", {tag2id[t] : t \in ts[j]})]
                 /\ frameglasses = create_frames(landscapes, <<>>)

NextScore == \E sname \in StrategyNames : RunStrategy(sname)

SpecScore == InitScore /\ [][NextScore]_vars

---------------------------------------------------------------------------
(* What the properties below read off a state, whichever script runs *)

CatalogItems == IF script = "naveen" THEN Range(paintings)
                ELSE Range(landscapes) \cup Range(portraits)

LItems == {p \in CatalogItems : p.orientation = "L"}

PItems == {p \in CatalogItems : p.orientation = "P"}

ItemWithId(id) == CHOOSE p \in CatalogItems : p.id = id

ItemTags(p) == IF script = "Optimised" THEN p.tag_ids ELSE p.tags

FrameIds(f) == IF script = "naveen" THEN f.painting_ids
               ELSE [k \in DOMAIN f.paintings |-> f.paintings[k].id]

FrameTagSet(f) == IF script = "Optimised" THEN f.tag_ids_set ELSE f.tags

\* the places (frame, slot) at which the frame list holds the item id
Places(fgs, id) ==
    {pl \in ((DOMAIN fgs) \X {1, 2}) :
        pl[2] \in DOMAIN FrameIds(fgs[pl[1]]) /\ FrameIds(fgs[pl[1]])[pl[2]] = id}

OddPortraits == Cardinality(PItems) % 2 = 1

\* the frames holding exactly one item, a portrait
SinglePortraitFrames(fgs) ==
    {k \in DOMAIN fgs : /\ Len(FrameIds(fgs[k])) = 1
                        /\ ItemWithId(FrameIds(fgs[k])[1]).orientation = "P"}

---------------------------------------------------------------------------
(* C1: the frames returned by the builders of python.py, Optimised.py and  *)
(* op1gpt.py (finalall.py holds op1gpt.py's builder) hold every item id of *)
(* the catalog exactly once and nothing else, and there are                *)
(* #L + ceil(#P / 2) of them.                                              *)

PartitionScripts == {"python", "Optimised", "op1gpt", "finalall"}

\* C1: the frames partition the item ids, and their number is #L + ceil(#P / 2)
C1_FramePartition ==
    (pc = "built" /\ script \in PartitionScripts) =>
        /\ \A p \in CatalogItems : Cardinality(Places(frameglasses, p.id)) = 1
        /\ \A k \in DOMAIN frameglasses :
              /\ Len(FrameIds(frameglasses[k])) \in {1, 2}
              /\ \A j \in DOMAIN FrameIds(frameglasses[k]) :
                    \E p \in CatalogItems : p.id = FrameIds(frameglasses[k])[j]
        /\ Len(frameglasses) = Cardinality(LItems) + (Cardinality(PItems) + 1) \div 2

C1_Witness ==
    /\ pc = "built"
    /\ script = "Optimised"
    /\ Cardinality(LItems) = 1
    /\ Cardinality(PItems) = 3
    /\ Len(frameglasses) = 3

---------------------------------------------------------------------------
(* C2: when the number of portraits is odd, the returned frames hold a     *)
(* one-item frame for the leftover portrait, and no portrait is missing    *)
(* from the frames.  (naveen.py's builder drops the last portrait.)        *)

C2_LeftoverEmitted ==
    (pc = "built" /\ OddPortraits) =>
        /\ SinglePortraitFrames(frameglasses) # {}
        /\ \A p \in PItems : Places(frameglasses, p.id) # {}

\* the same statement with naveen.py left out: it holds of the other builders
C2_OtherBuilders == script # "naveen" => C2_LeftoverEmitted

---------------------------------------------------------------------------
(* C3: python.py's min-overlap builder returns frames such that a frame     *)
(* with a landscape holds that one item only; a portrait frame holds two   *)
(* distinct portraits, except that with an odd number of portraits exactly *)
(* one frame holds a single portrait, it is the last frame, and its tag set *)
(* is the tag set of the portrait that is in no pair; with an even number  *)
(* no frame holds a single portrait.                                       *)

\* the portraits that are in no two-item frame
OutsidePairs(fgs) ==
    {p \in PItems : \A k \in DOMAIN fgs :
        Len(FrameIds(fgs[k])) = 2 => p.id \notin Range(FrameIds(fgs[k]))}

\* C3: frame sizes of python.py's builder, the single leftover frame last
C3_FrameSizes ==
    (pc = "built" /\ script = "python") =>
        /\ \A k \in DOMAIN frameglasses :
              LET ids == FrameIds(frameglasses[k])
              IN  \/ /\ Len(ids) = 1
                     /\ ItemWithId(ids[1]).orientation = "L"
                  \/ /\ Len(ids) = 2
                     /\ ids[1] # ids[2]
                     /\ ItemWithId(ids[1]).orientation = "P"
                     /\ ItemWithId(ids[2]).orientation = "P"
                  \/ k \in SinglePortraitFrames(frameglasses)
        /\ OddPortraits =>
              /\ SinglePortraitFrames(frameglasses) = {Len(frameglasses)}
              /\ Cardinality(OutsidePairs(frameglasses)) = 1
              /\ \A p \in OutsidePairs(frameglasses) :
                    /\ FrameIds(frameglasses[Len(frameglasses)]) = <<p.id>>
                    /\ frameglasses[Len(frameglasses)].tags = p.tags
        /\ ~OddPortraits => SinglePortraitFrames(frameglasses) = {}

C3_Witness ==
    /\ pc = "built"
    /\ script = "python"
    /\ Cardinality(PItems) = 3
    /\ Cardinality(LItems) = 1
    /\ SinglePortraitFrames(frameglasses) = {3}
    /\ frameglasses[3].tags = {"a"}

---------------------------------------------------------------------------
(* C4: python.py's pairing visits the portraits in descending tag-count     *)
(* order, ties in input order; when it reaches a still-unpaired portrait A *)
(* it pairs A with the still-unpaired portrait B that maximises            *)
(* |tags(A) u tags(B)| - 0.3 |tags(A) n tags(B)| over all remaining        *)
(* unpaired portraits, the first such B of the visiting order on ties; and *)
(* a step never changes the pairs formed before it.                        *)

\* the 0-based place of portrait p in descending tag-count order, ties by id
VisitRank(p) ==
    Cardinality({q \in Range(portraits) :
        \/ Cardinality(q.tags) > Cardinality(p.tags)
        \/ Cardinality(q.tags) = Cardinality(p.tags) /\ q.id < p.id})

\* the portraits other than A that are in no pair yet
RemainingFor(A) == {p \in Range(portraits) : p.id \notin used /\ p.id # A.id}

\* ten times |A u B| - 0.3 |A n B|
Coverage10(A, B) ==
    10 * Cardinality(A.tags \cup B.tags) - 3 * Cardinality(A.tags \cap B.tags)

BestPartner(A) ==
    CHOOSE B \in RemainingFor(A) : \A C \in RemainingFor(A) :
        \/ Coverage10(A, B) > Coverage10(A, C)
        \/ Coverage10(A, B) = Coverage10(A, C) /\ VisitRank(B) <= VisitRank(C)

C4_Step ==
    (pc = "pairing" /\ i < Len(portraits_sorted)) =>
        LET A == portraits_sorted[i + 1]
        IN  /\ Len(portraits_sorted) = Len(portraits)
            /\ \A k \in DOMAIN portraits_sorted :
                  /\ portraits_sorted[k] \in Range(portraits)
                  /\ VisitRank(portraits_sorted[k]) = k - 1
            /\ i' = i + 1
            /\ SubSeq(frameglasses', 1, Len(frameglasses)) = frameglasses
            /\ (A.id \notin used /\ RemainingFor(A) # {}) =>
                  /\ Len(frameglasses') = Len(frameglasses) + 1
                  /\ FrameIds(frameglasses'[Len(frameglasses')])
                        = <<A.id, BestPartner(A).id>>
                  /\ used' = used \cup {A.id, BestPartner(A).id}
            /\ (A.id \in used \/ RemainingFor(A) = {}) =>
                  /\ frameglasses' = frameglasses
                  /\ used' = used

\* C4: every step of the pairing loop takes the min-overlap decision above
C4_MinOverlapPairing == [][C4_Step]_vars

\* four portraits paired, the first pair's partner not being the next portrait
\* of the visiting order
C4_Witness ==
    /\ pc = "built"
    /\ script = "python"
    /\ Len(portraits) = 4
    /\ Len(frameglasses) = Len(landscapes) + 2
    /\ FrameIds(frameglasses[Len(landscapes) + 1])[1] = portraits_sorted[1].id
    /\ FrameIds(frameglasses[Len(landscapes) + 1])[2] = portraits_sorted[4].id

---------------------------------------------------------------------------
(* C5: in every reachable state every frame, in the builder's list and in  *)
(* every ordering made of it, has as tag set the union of the tag sets of  *)
(* the catalog items it holds, and a cached tag_count (python.py,          *)
(* op1gpt.py, finalall.py, Optimised.py) equal to the size of that set.    *)

AllFrames ==
    Range(frameglasses) \cup UNION {Range(results[s].ordered) : s \in DOMAIN results}

\* C5: frame tag set = union of its items' tag sets, cached count = its size
C5_FrameTags ==
    \A f \in AllFrames :
        /\ FrameTagSet(f) = UNION {ItemTags(ItemWithId(id)) : id \in Range(FrameIds(f))}
        /\ script # "naveen" => f.tag_count = Cardinality(FrameTagSet(f))

\* a two-item frame whose items have different tag sets, after a strategy ran
C5_Witness ==
    /\ "reverse" \in DOMAIN results
    /\ \E f \in Range(results["reverse"].ordered) :
          /\ Len(FrameIds(f)) = 2
          /\ ItemTags(ItemWithId(FrameIds(f)[1])) # ItemTags(ItemWithId(FrameIds(f)[2]))
          /\ Cardinality(FrameTagSet(f)) = 2

---------------------------------------------------------------------------
(* C6: the frame list of python.py and of finalall.py (and op1gpt.py)      *)
(* holds the landscape frames first, in input order, then the portrait     *)
(* frames in the order in which the pairing decisions were made: the       *)
(* builder takes its decisions along its working list (portraits_sorted in *)
(* python.py, portraits in the others), and the first portraits of the     *)
(* frames follow that order; while python.py is still pairing, the frames  *)
(* present are those of the decisions already taken.                       *)

OrderScripts == {"python", "finalall", "op1gpt"}

WorkingList == IF script = "python" THEN portraits_sorted ELSE portraits

\* the 1-based place of the portrait with that id in the working list
WorkPos(id) == CHOOSE k \in DOMAIN WorkingList : WorkingList[k].id = id

\* C6: landscape frames first in input order, then portrait frames in decision order
C6_FrameOrder ==
    (pc \in {"pairing", "built"} /\ script \in OrderScripts) =>
        LET nL == Len(landscapes)
        IN  /\ Len(frameglasses) >= nL
            /\ \A k \in 1 .. nL : FrameIds(frameglasses[k]) = <<landscapes[k].id>>
            /\ \A k \in nL + 1 .. Len(frameglasses) :
                  /\ \A j \in DOMAIN FrameIds(frameglasses[k]) :
                        ItemWithId(FrameIds(frameglasses[k])[j]).orientation = "P"
                  /\ pc = "pairing" => WorkPos(FrameIds(frameglasses[k])[1]) <= i
            /\ \A k, l \in nL + 1 .. Len(frameglasses) :
                  k < l => WorkPos(FrameIds(frameglasses[k])[1])
                              < WorkPos(FrameIds(frameglasses[l])[1])

\* a landscape read after a portrait still comes first, before two pairs
C6_Witness ==
    /\ pc = "built"
    /\ script = "python"
    /\ Len(landscapes) = 1
    /\ Len(frameglasses) = 3
    /\ landscapes[1].id = 3
    /\ FrameIds(frameglasses[2])[1] > FrameIds(frameglasses[3])[1]

---------------------------------------------------------------------------
(* The running script's local score of two frames *)

LocalScoreOf(f1, f2) ==
    CASE script \in SetScripts -> calculate_local_score(f1, f2)
      [] script = "naveen" -> compute_local_score(f1.tags, f2.tags)
      [] script = "Optimised" -> local_score(f1, f2)

Smaller(a, b) == IF a < b THEN a ELSE b

---------------------------------------------------------------------------
(* C7: for all frames A and B, local_score(A, B) = local_score(B, A), and  *)
(* it is the least of |A n B|, |A \ B| and |B \ A| of the frames' tag sets. *)

C7_LocalScoreSymmetric ==
    \A A, B \in Range(frameglasses) :
        LET TA == FrameTagSet(A)
            TB == FrameTagSet(B)
            v == LocalScoreOf(A, B)
        IN  /\ v = LocalScoreOf(B, A)
            /\ v <= Cardinality(TA \cap TB)
            /\ v <= Cardinality(TA \ TB)
            /\ v <= Cardinality(TB \ TA)
            /\ v \in {Cardinality(TA \cap TB), Cardinality(TA \ TB), Cardinality(TB \ TA)}

\* two frames of unequal size with a positive local score
C7_Witness ==
    \E A, B \in Range(frameglasses) :
        /\ Cardinality(FrameTagSet(A)) = 2
        /\ Cardinality(FrameTagSet(B)) = 1
        /\ \E C \in Range(frameglasses) : LocalScoreOf(A, C) = 1 /\ LocalScoreOf(C, B) = 0
        /\ "same" \in DOMAIN results
        /\ results["same"].score >= 1

---------------------------------------------------------------------------
(* C8: for all frames A and B, 0 <= local_score(A, B) <= min(|A.tags|,     *)
(* |B.tags|), and local_score(A, B) = 0 when either tag set is empty.      *)

C8_LocalScoreBounds ==
    \A A, B \in Range(frameglasses) :
        /\ 0 <= LocalScoreOf(A, B)
        /\ LocalScoreOf(A, B) <= Smaller(Cardinality(FrameTagSet(A)),
                                         Cardinality(FrameTagSet(B)))
        /\ (FrameTagSet(A) = {} \/ FrameTagSet(B) = {}) => LocalScoreOf(A, B) = 0

\* a frame without tags beside frames that score with each other
C8_Witness ==
    /\ script = "Optimised"
    /\ \E A, B, C \in Range(frameglasses) :
          /\ FrameTagSet(A) = {}
          /\ FrameTagSet(B) # {}
          /\ LocalScoreOf(B, C) = 1
    /\ "reverse" \in DOMAIN results
    /\ results["reverse"].score >= 1

---------------------------------------------------------------------------
(* C9: the global score of a frame sequence is the sum of the local scores *)
(* of its pairs of consecutive frames (places k and k+1 for k from 1 to    *)
(* len - 1), and 0 for a sequence of length 0 or 1.                        *)

RECURSIVE SumOver(_, _)
SumOver(K, seq) ==
    IF K = {} THEN 0
    ELSE LET k == CHOOSE x \in K : TRUE
         IN  LocalScoreOf(seq[k], seq[k + 1]) + SumOver(K \ {k}, seq)

\* C9: each recorded score is the sum of the consecutive local scores
C9_GlobalScoreIsSum ==
    \A s \in DOMAIN results :
        LET seq == results[s].ordered
        IN  /\ results[s].score = SumOver({k \in DOMAIN seq : k + 1 \in DOMAIN seq}, seq)
            /\ Len(seq) < 2 => results[s].score = 0

\* a scored sequence of four frames, each consecutive pair contributing
C9_Witness ==
    \E s \in DOMAIN results :
        /\ Len(results[s].ordered) = 4
        /\ results[s].score = 3

---------------------------------------------------------------------------
(* C10: a frame sequence and its reverse have the same global score: the   *)
(* 'same' and the 'reverse' strategy obtain equal scores on the same input. *)

C10_ReverseKeepsScore ==
    ("same" \in DOMAIN results /\ "reverse" \in DOMAIN results) =>
        /\ results["same"].ordered = frameglasses
        /\ \A k \in DOMAIN frameglasses :
              results["reverse"].ordered[k] = frameglasses[Len(frameglasses) + 1 - k]
        /\ Len(results["reverse"].ordered) = Len(frameglasses)
        /\ results["same"].score = results["reverse"].score

\* both strategies ran on a sequence that is not its own reverse and scores
C10_Witness ==
    /\ "same" \in DOMAIN results
    /\ "reverse" \in DOMAIN results
    /\ results["reverse"].ordered # results["same"].ordered
    /\ Len(frameglasses) = 4
    /\ results["reverse"].score = 2

---------------------------------------------------------------------------
(* C11: scoring from the dense integer tag ids agrees with scoring from    *)
(* the tag strings: for any two frames of a catalog, Optimised.py's        *)
(* local_score on the frames it built equals calculate_local_score on the  *)
(* frames of the same items holding the tag strings of the input lines.    *)

\* the frame of the same items as f, holding the tag strings of their lines
StringFrame(f) ==
    Frameglass([k \in DOMAIN f.paintings |->
        Painting(f.paintings[k].id, f.paintings[k].orientation,
                 catalog[f.paintings[k].id + 1].tags)])

\* C11: local_score over tag ids = calculate_local_score over tag strings
C11_EncodedScoreAgrees ==
    script = "Optimised" =>
        \A j, k \in DOMAIN frameglasses :
            local_score(frameglasses[j], frameglasses[k])
                = calculate_local_score(StringFrame(frameglasses[j]),
                                        StringFrame(frameglasses[k]))

\* two frames that score 1 under an index that is not the alphabetical one
C11_Witness ==
    /\ script = "Optimised"
    /\ DOMAIN tag2id = ScoreTags
    /\ tag2id["a"] # 0
    /\ "same" \in DOMAIN results
    /\ results["same"].score >= 1
    /\ \E j, k \in DOMAIN frameglasses :
          /\ local_score(frameglasses[j], frameglasses[k]) = 1
          /\ StringFrame(frameglasses[j]).tags # StringFrame(frameglasses[k]).tags

---------------------------------------------------------------------------
(* C12: the tag index is a bijection onto 0 .. T-1.  After any number of    *)
(* lines parsed by Optimised.py's parse_input, tag2id is defined on exactly *)
(* the tags seen, maps distinct tags to distinct ids, its ids are exactly   *)
(* 0 .. T-1 for T the number of distinct tags seen, and no step changes    *)
(* the id of a tag that has one.                                           *)

TagsSeen == UNION {catalog[k].tags : k \in DOMAIN catalog}

C12_Dense ==
    script = "Optimised" =>
        /\ DOMAIN tag2id = TagsSeen
        /\ \A t, u \in DOMAIN tag2id : t # u => tag2id[t] # tag2id[u]
        /\ {tag2id[t] : t \in DOMAIN tag2id} = 0 .. Cardinality(TagsSeen) - 1

C12_Stable ==
    \A t \in DOMAIN tag2id : t \in DOMAIN tag2id' /\ tag2id'[t] = tag2id[t]

\* C12: tag2id is a bijection from the tags seen onto 0 .. T-1, and ids never change
C12_TagIndexBijection == [](C12_Dense) /\ [][C12_Stable]_vars

\* both tags indexed, against the alphabet, and one of them seen on two lines
C12_Witness ==
    /\ script = "Optimised"
    /\ DOMAIN tag2id = BuildTags
    /\ tag2id["b"] = 0
    /\ \E j, k \in DOMAIN catalog : j < k /\ "b" \in catalog[j].tags \cap catalog[k].tags
    /\ pc = "built"

---------------------------------------------------------------------------
(* SpecOrder: a catalog of up to MaxOrderFrames landscapes with tag sets    *)
(* from OrderTagSets has been parsed; the frames are built and the run-all  *)
(* loop of the script runs to its end.  naveen.py, whose random strategy    *)
(* makes three trials, gets the catalogs of up to MaxTrialFrames.           *)

OrderInputs ==
    /\ script \in Scripts
    /\ pc = "parsed"
    /\ portraits = <<>>
    /\ portraits_sorted = <<>>
    /\ used = {}
    /\ i = 0
    /\ frameglasses = <<>>
    /\ results = EmptyMap
    /\ InitLocals
    /\ InitNoBatch
    /\ InitNoRefiner
    /\ \E k \in 0 .. MaxOrderFrames : \E ts \in [1 .. k -> OrderTagSets] :
        /\ catalog = [j \in 1 .. k |-> [orientation |-> "L", tags |-> ts[j]]]
        /\
          CASE script \in SetScripts ->
                 /\ paintings = <<>>
                 /\ tag2id = EmptyMap
                 /\ landscapes = [j \in 1 .. k |-> Painting(j - 1, "L", ts[j])]
            [] script = "naveen" ->
                 /\ k <= MaxTrialFrames
                 /\ paintings = [j \in 1 .. k |-> Painting_naveen(j - 1, "L", ts[j])]
                 /\ tag2id = EmptyMap
                 /\ landscapes = <<>>
            [] script = "Optimised" ->
                 /\ paintings = <<>>
                 /\ tag2id \in TagIndexes(ts)
                 /\ landscapes = [j \in 1 .. k |->
                        Painting_Optimised(j - 1, "L", {tag2id[t] : t \in ts[j]})]

\* the limit is the scaled one, which the longer catalogs exceed
InitOrder == OrderInputs /\ cand_limit = LIMIT_CANDIDATES

NextOrder ==
    \/ create_frameglasses_begin
    \/ create_frameglasses_sequential
    \/ create_frames_call
    \/ process_single_file_live_empty
    \/ run_all_begin
    \/ try_strategy
    \/ try_random
    \/ random_trial
    \/ random_trials_end
    \/ order_greedy_begin
    \/ order_greedy_step
    \/ strat_greedy_fast_begin
    \/ strat_greedy_fast_step
    \/ order_greedy_similarity_begin
    \/ order_greedy_similarity_step
    \/ greedy_return
    \/ run_all_end

SpecOrder == InitOrder /\ [][NextOrder]_vars

---------------------------------------------------------------------------
(* What the ordering properties read off a state *)

\* the position, counted from 1, of a frame in the built list (the frames
\* hold different paintings, so each is at one position)
OrigIndex(f) == CHOOSE j \in DOMAIN frameglasses : frameglasses[j] = f

\* the local score of the running script
Score2(f1, f2) == LocalScoreOf(f1, f2)

TagCountOf(f) == Cardinality(FrameTagSet(f))

\* the scripts whose loop keeps the best ordering
KeepingScripts == {"python", "finalall", "Optimised", "naveen"}

---------------------------------------------------------------------------
(* C13: python.py's order_greedy.  Its first frame is the input frame with  *)
(* the largest tag count, the lowest input index among equals; every later  *)
(* frame has the largest local score with its predecessor among the frames  *)
(* not placed before it, the lowest input index among equals.               *)

\* the frames of seq from position k on
NotPlacedBefore(seq, k) == {seq[m] : m \in k .. Len(seq)}

\* C13: the list order_greedy returned obeys the greedy rule at every position
C13_ExhaustiveGreedy ==
    (script = "python" /\ "greedy" \in DOMAIN results) =>
        LET seq == results["greedy"].ordered
        IN  /\ Len(seq) = Len(frameglasses)
            /\ \A k \in DOMAIN seq : \A g \in NotPlacedBefore(seq, k) :
                  IF k = 1
                  THEN \/ TagCountOf(g) < TagCountOf(seq[1])
                       \/ /\ TagCountOf(g) = TagCountOf(seq[1])
                          /\ OrigIndex(seq[1]) <= OrigIndex(g)
                  ELSE \/ Score2(seq[k - 1], g) < Score2(seq[k - 1], seq[k])
                       \/ /\ Score2(seq[k - 1], g) = Score2(seq[k - 1], seq[k])
                          /\ OrigIndex(seq[k]) <= OrigIndex(g)

\* four frames, the start not the first of the input, a tie for the second
\* place among frames that score, and a frame passed over for a later one
C13_Witness ==
    /\ script = "python"
    /\ "greedy" \in DOMAIN results
    /\ LET seq == results["greedy"].ordered
       IN  /\ Len(seq) = 4
           /\ OrigIndex(seq[1]) > 1
           /\ Score2(seq[1], seq[2]) = 1
           /\ \E g \in NotPlacedBefore(seq, 3) : Score2(seq[1], g) = 1
           /\ \E k \in 2 .. 3 : OrigIndex(seq[k]) > OrigIndex(seq[k + 1])

---------------------------------------------------------------------------
(* C14: every ordering strategy returns a permutation of the frames it was  *)
(* given: the same length, every input frame exactly once; also when        *)
(* several frames have the same tags.                                       *)

IsPermutationOf(seq, fgs) ==
    /\ Len(seq) = Len(fgs)
    /\ \A j \in DOMAIN fgs : Cardinality({k \in DOMAIN seq : seq[k] = fgs[j]}) = 1

\* C14: each list a strategy returned is a permutation of the built frames
C14_StrategiesPermute ==
    /\ \A s \in DOMAIN results : IsPermutationOf(results[s].ordered, frameglasses)
    /\ best_random.ordering # NoList => IsPermutationOf(best_random.ordering, frameglasses)

\* the windowed greedy strategies and a sort returned lists that rearrange
\* four frames, two of which have the same tags
C14_Witness ==
    /\ script \in {"op1gpt", "Optimised"}
    /\ Len(frameglasses) = 4
    /\ \E j, k \in DOMAIN frameglasses :
          j # k /\ FrameTagSet(frameglasses[j]) = FrameTagSet(frameglasses[k])
    /\ \E s \in DOMAIN results : s \in GreedyNames /\ results[s].ordered # frameglasses
    /\ results["by_tags"].ordered # frameglasses
    /\ results["random"].ordered # frameglasses

---------------------------------------------------------------------------
(* C15: on an empty frame sequence every ordering strategy, the greedy     *)
(* ones included, returns the empty sequence and raises no error.          *)

\* C15: with no frames, no strategy raises and each returns the empty list
C15_EmptyInputOrdered ==
    Len(catalog) = 0 =>
        /\ pc # "error"
        /\ \A s \in DOMAIN results : results[s].ordered = <<>>

\* the guarded greedy strategies (python.py 209, Optimised.py 85) do return []
C15_GuardedGreedy ==
    (Len(catalog) = 0 /\ script \in {"python", "Optimised"}) =>
        /\ pc # "error"
        /\ \A s \in DOMAIN results : results[s].ordered = <<>>

---------------------------------------------------------------------------
(* C16: a catalog with zero items is not an error: the pipeline ends with  *)
(* zero frames, reports the global score 0 and not a failure value, and    *)
(* hands an empty frame sequence (frame count 0) to the output writer.     *)

\* C16: on the empty catalog the run ends normally with score 0 and count 0 written
C16_EmptyCatalogOk ==
    (Len(catalog) = 0 /\ pc \in {"done", "failed", "error"}) =>
        /\ pc = "done"
        /\ run_best_score = 0
        /\ output = write_output(<<>>)

\* python.py, finalall.py and Optimised.py do so
C16_OtherScripts ==
    (Len(catalog) = 0 /\ script \in {"python", "finalall", "Optimised"}) =>
        /\ pc \notin {"failed", "error"}
        /\ pc = "done" => (run_best_score = 0 /\ output = write_output(<<>>))

---------------------------------------------------------------------------
(* C17: in the windowed greedy strategies (Optimised.py strat_greedy_fast, *)
(* op1gpt.py order_greedy_similarity), at every selection step at which    *)
(* candidates remain, the window of candidates examined is not empty.      *)

\* the candidates the coming selection examines at most
Window ==
    CASE script = "Optimised" -> sample(remaining)
      [] script = "op1gpt" ->
             IF Len(remaining) <= MIN_BATCH THEN remaining
             ELSE SubSeq(WorkingRemaining, 1, BatchLimit(WorkingRemaining))

---------------------------------------------------------------------------
(* C18: windowed greedy selects as exhaustive greedy does, within its      *)
(* window: the frame placed next has the largest local score with the      *)
(* frame placed last among the candidates of the window, the lowest        *)
(* original index among equals.                                            *)

C18_Step ==
    (script \in {"Optimised", "op1gpt"} /\ pc = "greedy"
        /\ Len(result') = Len(result) + 1) =>
        LET chosen == result'[Len(result')]
            W == Range(Window)
        IN  /\ chosen \in W
            /\ \A w \in W :
                  \/ Score2(current, w) < Score2(current, chosen)
                  \/ /\ Score2(current, w) = Score2(current, chosen)
                     /\ OrigIndex(chosen) <= OrigIndex(w)

\* C18: every selection of a windowed greedy takes the best of its window,
\* the lowest original index among equals
C18_WindowedSelection == [][C18_Step]_vars

\* Optimised.py's strat_greedy_fast does select so
C18_OptimisedSelection == [][script = "Optimised" => C18_Step]_vars

---------------------------------------------------------------------------
(* C19: run-all selection.  After the loop best_score is the largest       *)
(* global score of the strategies run, the kept ordering is the one of the *)
(* first strategy, in the order of the table, that has this score, and it  *)
(* is never None, also when every score is 0.                              *)

MaxScore ==
    CHOOSE m \in {results[s].score : s \in DOMAIN results} :
        \A s \in DOMAIN results : results[s].score <= m

FirstBest ==
    StrategyTable[CHOOSE k \in DOMAIN StrategyTable :
        /\ results[StrategyTable[k]].score = MaxScore
        /\ \A j \in 1 .. k - 1 : results[StrategyTable[j]].score < MaxScore]

\* C19: the loop keeps the largest score and the first ordering that has it
C19_RunAllSelection ==
    (script \in KeepingScripts /\ pc = "done") =>
        /\ DOMAIN results = Range(StrategyTable)
        /\ run_best_score = MaxScore
        /\ best_ordered # NoList
        /\ best_ordered = results[FirstBest].ordered

\* a later strategy beat the first, and two different orderings share the best score
C19_Witness ==
    /\ script \in KeepingScripts
    /\ pc = "done"
    /\ results[StrategyTable[1]].score < run_best_score
    /\ \E s, t \in DOMAIN results :
          /\ results[s].score = run_best_score
          /\ results[t].score = run_best_score
          /\ results[s].ordered # results[t].ordered

---------------------------------------------------------------------------
(* C20: in run-all mode of op1gpt.py's solve_all_files, once all           *)
(* strategies have been tried, the frame sequence in the catalog's output  *)
(* file is an ordering with the highest global score among those tried     *)
(* (the score added to the total), not just the last strategy's.           *)

\* C20: the output file holds an ordering that has the best score
C20_OutputIsBest ==
    (script = "op1gpt" /\ pc = "done") =>
        \E s \in DOMAIN results :
            /\ results[s].score = run_best_score
            /\ output = write_output(results[s].ordered)

(* C21: the random strategy is reproducible.  Its calls take no seed, so   *)
(* every two calls on the same frame sequence are calls with the same      *)
(* seed, and they return the same permutation: of the three trials that    *)
(* naveen.py makes of it on the same frames, each returns the list that    *)
(* the trial before it returned.                                           *)

C21_Step ==
    (script = "naveen" /\ pc = "loop" /\ trial >= 1 /\ trial' = trial + 1)
        => shuffled' = shuffled

C21_SeededRandom == [][C21_Step]_vars

---------------------------------------------------------------------------
(* C22: the sort by tag count.  Each list a sort by tag count returned is a *)
(* permutation of the built frames, non-decreasing in the tag count when    *)
(* ascending and non-increasing when descending, frames of equal tag count  *)
(* in their input order in both directions; and sorting by key=-tag_count   *)
(* gives the list that sorting by key=tag_count with reverse=True gives.    *)

AscendingNames ==
    IF script = "Optimised" THEN {"by_tags"}
    ELSE IF script = "naveen" THEN {"Ascending tag count"} ELSE {}

DescendingNames ==
    IF script \in SetScripts THEN {"by_tags"}
    ELSE IF script = "naveen" THEN {"Descending tag count"} ELSE {}

\* the strategy the loop has tried last (its entry of results is never
\* written again)
JustTried ==
    IF pc = "loop" /\ sidx >= 1 THEN {StrategyTable[sidx]} \cap DOMAIN results
    ELSE {}

SortedStable(seq, ascending) ==
    /\ IsPermutationOf(seq, frameglasses)
    /\ \A p, q \in DOMAIN seq : p < q =>
          /\ ascending => TagCountOf(seq[p]) <= TagCountOf(seq[q])
          /\ ~ascending => TagCountOf(seq[p]) >= TagCountOf(seq[q])
          /\ TagCountOf(seq[p]) = TagCountOf(seq[q])
                => OrigIndex(seq[p]) < OrigIndex(seq[q])

C22_CardinalitySort ==
    /\ \A s \in JustTried \cap AscendingNames :
          SortedStable(results[s].ordered, TRUE)
    /\ \A s \in JustTried \cap DescendingNames :
          SortedStable(results[s].ordered, FALSE)
    /\ (script \in SetScripts /\ JustTried # {})
          => order_by_tag_count_neg(frameglasses) = order_by_tag_count(frameglasses)

\* python.py has sorted four frames downwards: two of them have the same tag
\* count and are apart in the input, and the sort moved a frame
C22_Witness ==
    /\ script = "python"
    /\ "by_tags" \in JustTried
    /\ Len(frameglasses) = 4
    /\ results["by_tags"].ordered # frameglasses
    /\ results["by_tags"].ordered # Reversed(frameglasses)
    /\ TagCountOf(frameglasses[1]) = 1
    /\ TagCountOf(frameglasses[2]) = 2
    /\ TagCountOf(frameglasses[3]) = 1
    /\ TagCountOf(frameglasses[4]) = 2
    /\ frameglasses[2].tags # frameglasses[4].tags

---------------------------------------------------------------------------
(* C23: no ordering strategy changes the frame list it is given.  Through   *)
(* every step of the run-all loop, the steps inside the greedy strategies   *)
(* included, the list of built frames that the strategies are called with   *)
(* stays what the builder returned, element for element.                    *)

C23_Step == pc \in {"loop", "greedy"} => frameglasses' = BuiltFrames

---------------------------------------------------------------------------
(* The batch driver of Optimised.py: main submits one call of               *)
(* process_file_worker per input file to a ProcessPoolExecutor and collects *)
(* the results in the order in which the calls finish.  The calls run in    *)
(* any interleaving; a call reads its file one line at a time.              *)

\* the variables of a single run, which the batch leaves alone
runVars == <<script, pc, paintings, landscapes, portraits, tag2id,
             portraits_sorted, used, i, frameglasses, results, catalog,
             sidx, run_best_score, best_ordered, output, remaining, result,
             trial, best_random, shuffled, cand_limit>>

\* the names os.listdir gives, sorted
FileNames == <<"f1.txt", "f2.txt", "f3.txt", "f4.txt">>

\* a line of an input file: the orientation and the tags as the line lists them
Line(o, ts) == [orientation |-> o, tags |-> ts]

\* the files a batch is made of
BatchCatalogs ==
    { <<Line("L", <<"a", "b">>), Line("L", <<"b", "c">>),
        Line("P", <<"a">>), Line("P", <<"c">>)>>,
      <<Line("L", <<"b", "a">>), Line("L", <<"a", "c">>)>>,
      <<Line("P", <<"c">>), Line("L", <<"c", "a", "b">>), Line("L", <<"b">>)>> }

\* the menu of main
Choices == {"1", "2", "3", "4", "5", "6"}

\* the bug of running the calls in threads of one process (or of keeping
\* tag2id at module level): every call works on main's dict
ArgsDict_shared(fname) == "main"

\* the dict a call's args hold: submit pickles the args, so the call works
\* on a dict of its own
ArgsDict(fname) == fname

\* Optimised.py 36-40: for t in tags: a tag not in tag2id gets len(tag2id)
RECURSIVE AssignIds(_, _, _)
AssignIds(t2i, tags, k) ==
    IF k > Len(tags) THEN t2i
    ELSE AssignIds(IF tags[k] \in DOMAIN t2i THEN t2i
                   ELSE t2i @@ (tags[k] :> Cardinality(DOMAIN t2i)),
                   tags, k + 1)

\* Optimised.py 94-99: the loop of strat_greedy_fast, run to its end
RECURSIVE GreedyFastFrom(_, _)
GreedyFastFrom(rem, res) ==
    IF rem = <<>> THEN res
    ELSE LET smp == sample(rem)
             k == NextFramePos(res[Len(res)], smp)
         IN  GreedyFastFrom(RemoveAt(rem, k), Append(res, smp[k]))

\* Optimised.py 84-100, a whole call
strat_greedy_fast(frames) ==
    IF frames = <<>> THEN <<>>
    ELSE LET idx == MaxTagCountPos(frames)
         IN  GreedyFastFrom(RemoveAt(frames, idx), <<frames[idx]>>)

\* Optimised.py 136: the strategy of a menu choice other than "1"; the
\* shuffle of choice "4" is passed in
ChosenStrategy(ch, frames, rnd) ==
    CASE ch = "2" -> strat_same(frames)
      [] ch = "3" -> strat_reverse(frames)
      [] ch = "4" -> rnd
      [] ch = "5" -> strat_by_tags(frames)
      [] ch = "6" -> strat_greedy_fast(frames)

\* Optimised.py 125-133: the first of the lists with the largest score
best_result(arrs) ==
    arrs[CHOOSE k \in DOMAIN arrs :
            /\ \A j \in DOMAIN arrs : total_score(arrs[j]) <= total_score(arrs[k])
            /\ \A j \in 1 .. k - 1 : total_score(arrs[j]) < total_score(arrs[k])]

\* main 159-176: the files are listed, the choice is read, tag2id = dict(),
\* and every call is submitted with a pickled copy of (fname, choice, tag2id)
main_submit ==
    /\ main_pc = "start"
    /\ main_pc' = "waiting"
    /\ dicts' = [d \in {"main"} \cup DOMAIN input_files |-> dicts["main"]]
    /\ tasks' = [f \in DOMAIN input_files |->
                    [pc |-> "parse", pid |-> 0, landscapes |-> <<>>,
                     portraits |-> <<>>, frames |-> <<>>, score |-> 0 - 1]]
    /\ UNCHANGED <<input_files, choice, output_dir, scores_times, completed,
                   total_score_sum>>
    /\ UNCHANGED <<runVars, refVars>>

\* process_file_worker 114 -> parse_input 32-45: one line of the call's file
worker_parse_line(fname) ==
    /\ main_pc = "waiting"
    /\ tasks[fname].pc = "parse"
    /\ tasks[fname].pid < Len(input_files[fname])
    /\ LET t == tasks[fname]
           line == input_files[fname][t.pid + 1]
           tag2id_after == AssignIds(dicts[ArgsDict(fname)], line.tags, 1)
           p == Painting_Optimised(t.pid, line.orientation,
                                   {tag2id_after[x] : x \in Range(line.tags)})
       IN  /\ dicts' = [dicts EXCEPT ![ArgsDict(fname)] = tag2id_after]
           /\ tasks' = [tasks EXCEPT
                  ![fname].pid = t.pid + 1,
                  ![fname].landscapes =
                      IF line.orientation = "L" THEN Append(t.landscapes, p)
                      ELSE t.landscapes,
                  ![fname].portraits =
                      IF line.orientation = "L" THEN t.portraits
                      ELSE Append(t.portraits, p)]
    /\ UNCHANGED <<input_files, choice, output_dir, scores_times, completed,
                   total_score_sum, main_pc>>
    /\ UNCHANGED <<runVars, refVars>>

\* process_file_worker 115: frames = create_frames(landscapes, portraits)
worker_create_frames(fname) ==
    /\ main_pc = "waiting"
    /\ tasks[fname].pc = "parse"
    /\ tasks[fname].pid = Len(input_files[fname])
    /\ LET t == tasks[fname]
           sortedPs == sorted_by_tag_count(t.portraits, FALSE)
       IN  tasks' = [tasks EXCEPT ![fname].pc = "built",
                                  ![fname].portraits = sortedPs,
                                  ![fname].frames = create_frames(t.landscapes, sortedPs)]
    /\ UNCHANGED <<input_files, choice, dicts, output_dir, scores_times, completed,
                   total_score_sum, main_pc>>
    /\ UNCHANGED <<runVars, refVars>>

\* process_file_worker 125-143: the strategies are applied, the result is
\* written to Output/fname and (fname, score, elapsed) is returned
worker_order_write(fname) ==
    /\ main_pc = "waiting"
    /\ tasks[fname].pc = "built"
    /\ \E rnd \in order_random(tasks[fname].frames) :
          LET frames == tasks[fname].frames
              arr == IF choice = "1"
                     THEN best_result(<<strat_same(frames), strat_reverse(frames),
                                        rnd, strat_by_tags(frames),
                                        strat_greedy_fast(frames)>>)
                     ELSE ChosenStrategy(choice, frames, rnd)
          IN  /\ output_dir' = (fname :> write_output(arr)) @@ output_dir
              /\ tasks' = [tasks EXCEPT ![fname].pc = "returned",
                                        ![fname].score = total_score(arr)]
    /\ UNCHANGED <<input_files, choice, dicts, scores_times, completed,
                   total_score_sum, main_pc>>
    /\ UNCHANGED <<runVars, refVars>>

\* main 177-182: as_completed hands over a finished future, once
main_collect(fname) ==
    /\ main_pc = "waiting"
    /\ tasks[fname].pc = "returned"
    /\ scores_times' = (fname :> tasks[fname].score) @@ scores_times
    /\ completed' = completed + 1
    /\ tasks' = [tasks EXCEPT ![fname].pc = "collected"]
    /\ UNCHANGED <<input_files, choice, dicts, output_dir, total_score_sum, main_pc>>
    /\ UNCHANGED <<runVars, refVars>>

\* the bug of summing the set of the scores: equal scores count once
RECURSIVE sum_scores_distinct(_)
sum_scores_distinct(st) ==
    LET vals == {st[f] : f \in DOMAIN st}
    IN  IF vals = {} THEN 0
        ELSE LET v == CHOOSE x \in vals : TRUE
             IN  v + sum_scores_distinct(
                        [f \in {g \in DOMAIN st : st[g] # v} |-> st[f]])

\* main 185: sum(s for s, t in scores_times.values())
RECURSIVE sum_scores(_)
sum_scores(st) ==
    IF DOMAIN st = {} THEN 0
    ELSE LET f == CHOOSE g \in DOMAIN st : TRUE
         IN  st[f] + sum_scores([g \in DOMAIN st \ {f} |-> st[g]])

\* main 184-190: every future has been handed over; the summary
main_summary ==
    /\ main_pc = "waiting"
    /\ \A f \in DOMAIN tasks : tasks[f].pc = "collected"
    /\ total_score_sum' = sum_scores(scores_times)
    /\ main_pc' = "done"
    /\ UNCHANGED <<input_files, choice, dicts, tasks, output_dir, scores_times,
                   completed>>
    /\ UNCHANGED <<runVars, refVars>>

\* 1 .. MaxFiles input files, each one of BatchCatalogs, and a menu choice
InitBatch ==
    /\ script = "Optimised"
    /\ pc = "parse"
    /\ paintings = <<>>
    /\ landscapes = <<>>
    /\ portraits = <<>>
    /\ tag2id = EmptyMap
    /\ portraits_sorted = <<>>
    /\ used = {}
    /\ i = 0
    /\ frameglasses = <<>>
    /\ results = EmptyMap
    /\ catalog = <<>>
    /\ sidx = 0
    /\ run_best_score = 0
    /\ best_ordered = NoList
    /\ output = NoFile
    /\ remaining = <<>>
    /\ result = <<>>
    /\ trial = 0
    /\ best_random = [score |-> 0 - 1, ordering |-> NoList]
    /\ shuffled = NoList
    /\ cand_limit \in Limits
    /\ InitNoRefiner
    /\ \E n \in 1 .. MaxFiles :
          input_files \in [{FileNames[k] : k \in 1 .. n} -> BatchCatalogs]
    /\ choice \in Choices
    /\ dicts = [d \in {"main"} |-> EmptyMap]
    /\ tasks = <<>>
    /\ output_dir = <<>>
    /\ scores_times = <<>>
    /\ completed = 0
    /\ total_score_sum = 0
    /\ main_pc = "start"

NextBatch ==
    \/ main_submit
    \/ \E fname \in DOMAIN tasks : worker_parse_line(fname)
    \/ \E fname \in DOMAIN tasks : worker_create_frames(fname)
    \/ \E fname \in DOMAIN tasks : worker_order_write(fname)
    \/ \E fname \in DOMAIN tasks : main_collect(fname)
    \/ main_summary

SpecBatch == InitBatch /\ [][NextBatch]_vars

---------------------------------------------------------------------------
(* C24: the calls of process_file_worker that run in parallel share no      *)
(* state.  Whatever the interleaving of the calls, a file's frames and its  *)
(* tag index are those of the file parsed alone from an empty index, its    *)
(* score and its output file under a deterministic strategy are those of    *)
(* the file processed alone, a call writes no output file but its own, and  *)
(* main's dict stays empty.                                                 *)

\* a file parsed alone, from line k on
RECURSIVE ParseAlone(_, _, _, _, _)
ParseAlone(lines, k, t2i, ls, ps) ==
    IF k > Len(lines) THEN [tag2id |-> t2i, landscapes |-> ls, portraits |-> ps]
    ELSE LET after == AssignIds(t2i, lines[k].tags, 1)
             p == Painting_Optimised(k - 1, lines[k].orientation,
                                     {after[x] : x \in Range(lines[k].tags)})
         IN  IF lines[k].orientation = "L"
             THEN ParseAlone(lines, k + 1, after, Append(ls, p), ps)
             ELSE ParseAlone(lines, k + 1, after, ls, Append(ps, p))

AloneFrames(lines) ==
    LET r == ParseAlone(lines, 1, EmptyMap, <<>>, <<>>)
    IN  create_frames(r.landscapes, sorted_by_tag_count(r.portraits, FALSE))

Finished(fname) == tasks[fname].pc \in {"returned", "collected"}

DeterministicChoices == {"2", "3", "5", "6"}

C24_WorkersIndependent ==
    /\ dicts["main"] = EmptyMap
    /\ \A fname \in DOMAIN tasks :
          LET t == tasks[fname]
              alone == AloneFrames(input_files[fname])
          IN  /\ t.pc # "parse" =>
                    /\ t.frames = alone
                    /\ dicts[fname] =
                         ParseAlone(input_files[fname], 1, EmptyMap, <<>>, <<>>).tag2id
              /\ Finished(fname) <=> fname \in DOMAIN output_dir
              /\ (Finished(fname) /\ choice \in DeterministicChoices) =>
                    /\ output_dir[fname] =
                         write_output(ChosenStrategy(choice, alone, <<>>))
                    /\ t.score = total_score(ChosenStrategy(choice, alone, <<>>))
              /\ (Finished(fname) /\ choice = "1") =>
                    /\ output_dir[fname].count = Len(alone)
                    /\ \A ch \in DeterministicChoices :
                          t.score >= total_score(ChosenStrategy(ch, alone, <<>>))

\* two calls have run side by side on files that list the tags a and b in
\* opposite orders: one has written its output, the other is amid its file
C24_Witness ==
    /\ \E f, g \in DOMAIN tasks :
          /\ Finished(f)
          /\ tasks[g].pc = "parse"
          /\ tasks[g].pid > 0
          /\ tasks[g].pid < Len(input_files[g])
          /\ "a" \in DOMAIN dicts[f] /\ "a" \in DOMAIN dicts[g]
          /\ dicts[f]["a"] # dicts[g]["a"]
    /\ choice = "6"

---------------------------------------------------------------------------
(* C30: the batch driver's completion.  While the futures are handed over,  *)
(* completed counts the entries of scores_times; once the loop over         *)
(* as_completed has ended, in whatever order the calls finished, completed  *)
(* is the number of input files, scores_times holds one entry per input     *)
(* file, the score that the file's call returned, and the total of the      *)
(* summary is the sum of these scores.                                      *)

RECURSIVE SumOfFiles(_)
SumOfFiles(F) ==
    IF F = {} THEN 0
    ELSE LET f == CHOOSE g \in F : TRUE
         IN  tasks[f].score + SumOfFiles(F \ {f})

C30_BatchCompletion ==
    /\ main_pc \in {"waiting", "done"} =>
          /\ completed = Cardinality(DOMAIN scores_times)
          /\ DOMAIN scores_times = {f \in DOMAIN tasks : tasks[f].pc = "collected"}
    /\ main_pc = "done" =>
          /\ completed = Cardinality(DOMAIN input_files)
          /\ DOMAIN scores_times = DOMAIN input_files
          /\ \A f \in DOMAIN input_files : scores_times[f] = tasks[f].score
          /\ total_score_sum = SumOfFiles(DOMAIN input_files)

\* two files with the same positive score, the second of them handed over
\* first, and the summary made
C30_Witness ==
    /\ main_pc = "done"
    /\ Cardinality(DOMAIN input_files) = 2
    /\ scores_times["f1.txt"] = scores_times["f2.txt"]
    /\ scores_times["f1.txt"] > 0
    /\ total_score_sum = 2 * scores_times["f1.txt"]

\* the second file's future is handed over while the first call still runs
C30_OutOfOrder ==
    /\ main_pc = "waiting"
    /\ "f2.txt" \in DOMAIN scores_times
    /\ tasks["f1.txt"].pc = "parse"

---------------------------------------------------------------------------
(* The local search refiner (spec 4.5), of which the repository holds no    *)
(* code: up to MAX_PASSES passes over the adjacent pairs (i, i + 1) of an   *)
(* ordered sequence; a pair is swapped when that strictly increases the sum *)
(* of the local scores of the two boundaries the swap affects; a pass       *)
(* without a swap ends the refinement.                                      *)

\* the fixed maximum number of passes
MAX_PASSES == 2

RefineTagSets ==
    {{"a", "b"}, {"a", "b", "c", "d"}, {"b", "c", "d"}, {"a", "b", "e", "f"}}

\* the sequence with its elements at i and i + 1 exchanged (i counted from 1)
Swapped(seq, k) ==
    [j \in DOMAIN seq |-> IF j = k THEN seq[k + 1]
                          ELSE IF j = k + 1 THEN seq[k] ELSE seq[j]]

\* the local scores of the two boundaries that a swap at k affects: the one
\* before the pair and the one after it, where there is one
BoundarySum(seq, k) ==
    (IF k > 1 THEN calculate_local_score(seq[k - 1], seq[k]) ELSE 0)
    + (IF k + 2 <= Len(seq) THEN calculate_local_score(seq[k + 1], seq[k + 2]) ELSE 0)

\* a swap is kept when it strictly increases the sum
Improving(seq, k) == BoundarySum(Swapped(seq, k), k) > BoundarySum(seq, k)

\* the bug of leaving the hypothetical swap in place when it is not kept
AfterTry_noRevert(seq, k) == Swapped(seq, k)

\* the sequence after the pair at k was tried: swapped, or as it was
AfterTry(seq, k) == IF Improving(seq, k) THEN Swapped(seq, k) ELSE seq

\* the variables of a single run but pc, which the refiner leaves alone
restVars == <<script, paintings, landscapes, portraits, tag2id,
              portraits_sorted, used, i, frameglasses, results, catalog,
              sidx, run_best_score, best_ordered, output, remaining, result,
              trial, best_random, shuffled, cand_limit>>

\* one pair of a pass
refine_try_pair ==
    /\ pc = "refine"
    /\ ref_i + 1 < Len(ref_seq)
    /\ ref_seq' = AfterTry(ref_seq, ref_i + 1)
    /\ ref_swaps' = IF Improving(ref_seq, ref_i + 1) THEN ref_swaps + 1 ELSE ref_swaps
    /\ ref_total' = IF Improving(ref_seq, ref_i + 1) THEN ref_total + 1 ELSE ref_total
    /\ ref_i' = ref_i + 1
    /\ UNCHANGED <<pc, ref_passes, ref_runs>>
    /\ UNCHANGED <<restVars, batchVars>>

\* a pass with swaps has ended and a further pass is allowed
refine_next_pass ==
    /\ pc = "refine"
    /\ ref_i + 1 >= Len(ref_seq)
    /\ ref_swaps > 0
    /\ ref_passes + 1 < MAX_PASSES
    /\ ref_passes' = ref_passes + 1
    /\ ref_i' = 0
    /\ ref_swaps' = 0
    /\ UNCHANGED <<pc, ref_seq, ref_total, ref_runs>>
    /\ UNCHANGED <<restVars, batchVars>>

\* a pass without a swap, or the last pass allowed, has ended: the refiner
\* returns the sequence and its number of swaps
refine_return ==
    /\ pc = "refine"
    /\ ref_i + 1 >= Len(ref_seq)
    /\ ref_swaps = 0 \/ ref_passes + 1 >= MAX_PASSES
    /\ ref_runs' = Append(ref_runs, [output |-> ref_seq, swaps |-> ref_total,
                                     last |-> ref_swaps])
    /\ pc' = "refined"
    /\ UNCHANGED <<ref_seq, ref_i, ref_passes, ref_swaps, ref_total>>
    /\ UNCHANGED <<restVars, batchVars>>

\* the refiner is run again, on the sequence it returned
refine_again ==
    /\ pc = "refined"
    /\ Len(ref_runs) < 2
    /\ pc' = "refine"
    /\ ref_i' = 0
    /\ ref_passes' = 0
    /\ ref_swaps' = 0
    /\ ref_total' = 0
    /\ UNCHANGED <<ref_seq, ref_runs>>
    /\ UNCHANGED <<restVars, batchVars>>

\* a sequence of up to MaxRefineFrames frames, in some order
InitRefine ==
    /\ script = "python"
    /\ pc = "refine"
    /\ paintings = <<>>
    /\ landscapes = <<>>
    /\ portraits = <<>>
    /\ tag2id = EmptyMap
    /\ portraits_sorted = <<>>
    /\ used = {}
    /\ i = 0
    /\ frameglasses = <<>>
    /\ results = EmptyMap
    /\ catalog = <<>>
    /\ InitLocals
    /\ cand_limit = LIMIT_CANDIDATES
    /\ InitNoBatch
    /\ \E k \in 0 .. MaxRefineFrames : \E ts \in [1 .. k -> RefineTagSets] :
          ref_seq = [j \in 1 .. k |-> Frameglass(<<Painting(j - 1, "L", ts[j])>>)]
    /\ ref_i = 0
    /\ ref_passes = 0
    /\ ref_swaps = 0
    /\ ref_total = 0
    /\ ref_runs = <<>>

NextRefine ==
    \/ refine_try_pair
    \/ refine_next_pass
    \/ refine_return
    \/ refine_again

SpecRefine == InitRefine /\ [][NextRefine]_vars

(* C25: refiner idempotence.  A second run of the refiner, on the sequence *)
(* that a first run returned, returns that sequence and makes no swap.     *)
C25_RefinerIdempotent ==
    Len(ref_runs) = 2 =>
        /\ ref_runs[2].output = ref_runs[1].output
        /\ ref_runs[2].swaps = 0

(* C25, amended: when the first run ended with a pass without a swap, the  *)
(* second run, on the sequence the first returned, makes no swap at any of *)
(* its steps and returns that sequence.                                    *)
C25_IdempotentOnceConverged ==
    (Len(ref_runs) >= 1 /\ ref_runs[1].last = 0) =>
        /\ (pc = "refine" \/ Len(ref_runs) = 2) =>
              /\ ref_seq = ref_runs[1].output
              /\ ref_total = 0
        /\ Len(ref_runs) = 2 =>
              /\ ref_runs[2].output = ref_runs[1].output
              /\ ref_runs[2].swaps = 0

\* a first run that swapped in its first pass and not in its second, and a
\* second run made on its output
C25_Witness ==
    /\ Len(ref_runs) = 2
    /\ ref_runs[1].swaps > 0
    /\ ref_runs[1].last = 0
    /\ Len(ref_seq) >= 4

---------------------------------------------------------------------------
(* SpecScenario: python.py on the catalog of the spec's scenario, two       *)
(* landscapes tagged {a,b} and {b,c} and two portraits tagged {a} and {c},  *)
(* its four lines in any order: the frames are built and the run-all loop   *)
(* runs to its end.                                                         *)

ScenarioLines ==
    <<[orientation |-> "L", tags |-> {"a", "b"}],
      [orientation |-> "L", tags |-> {"b", "c"}],
      [orientation |-> "P", tags |-> {"a"}],
      [orientation |-> "P", tags |-> {"c"}]>>

\* the paintings of the lines of the given orientation, in input order, the
\* id of each its line position counted from 0 (python.py parse_input)
ParsedOf(lines, o) ==
    LET all == [j \in DOMAIN lines |->
                   Painting(j - 1, lines[j].orientation, lines[j].tags)]
    IN  SelectSeq(all, LAMBDA p : p.orientation = o)

InitScenario ==
    /\ script = "python"
    /\ pc = "parsed"
    /\ catalog \in Rearrangements(ScenarioLines)
    /\ landscapes = ParsedOf(catalog, "L")
    /\ portraits = ParsedOf(catalog, "P")
    /\ paintings = <<>>
    /\ tag2id = EmptyMap
    /\ portraits_sorted = <<>>
    /\ used = {}
    /\ i = 0
    /\ frameglasses = <<>>
    /\ results = EmptyMap
    /\ InitLocals
    /\ cand_limit = LIMIT_CANDIDATES
    /\ InitNoBatch
    /\ InitNoRefiner

NextScenario ==
    \/ create_frameglasses_begin
    \/ create_frameglasses_pair
    \/ create_frameglasses_end
    \/ run_all_begin
    \/ try_strategy
    \/ try_random
    \/ order_greedy_begin
    \/ order_greedy_step
    \/ greedy_return
    \/ run_all_end

SpecScenario == InitScenario /\ [][NextScenario]_vars

(* C26: on the scenario's catalog the builder returns exactly 3 frames,    *)
(* the two landscapes' one-item frames and one frame of the two portraits  *)
(* with the tag set {a,c}; exhaustive greedy orders them with the global   *)
(* score 2, and no rearrangement of the three frames scores more.          *)
C26_Scenario ==
    /\ pc \in {"built", "loop", "greedy", "done"} =>
          /\ Len(frameglasses) = 3
          /\ Cardinality({k \in 1 .. 3 :
                /\ Len(frameglasses[k].paintings) = 1
                /\ frameglasses[k].paintings[1].orientation = "L"}) = 2
          /\ Cardinality({k \in 1 .. 3 :
                /\ Len(frameglasses[k].paintings) = 2
                /\ \A m \in 1 .. 2 : frameglasses[k].paintings[m].orientation = "P"
                /\ frameglasses[k].tags = {"a", "c"}}) = 1
    /\ "greedy" \in DOMAIN results =>
          /\ results["greedy"].score = 2
          /\ calculate_total_score(results["greedy"].ordered) = 2
          /\ \A seq \in Rearrangements(frameglasses) : calculate_total_score(seq) <= 2
    /\ pc = "done" => run_best_score = 2

\* the run-all loop has ended on a catalog whose portraits come before its
\* landscapes; greedy placed the two-portrait frame last
C26_Witness ==
    /\ pc = "done"
    /\ catalog[1].orientation = "P"
    /\ catalog[2].orientation = "P"
    /\ Len(results["greedy"].ordered[3].paintings) = 2
    /\ output.count = 3

----------------------------------------------------------------------------
(* C27: the greedy loops of python.py, op1gpt.py and Optimised.py.  While a  *)
(* loop runs, the frames placed and the frames remaining are together the    *)
(* n input frames, and a candidate is found whenever frames remain; each     *)
(* iteration takes exactly one frame out of the remaining ones and appends   *)
(* it to the result; the loop returns only with nothing remaining, a list    *)
(* of n frames, that is after n - 1 iterations.                              *)

\* the frames the greedy loop has not placed yet
RemainingFrames ==
    IF script = "python" THEN {BuiltFrames[j + 1] : j \in remaining}
    ELSE Range(remaining)

\* how many they are
RemainingCount ==
    IF script = "python" THEN Cardinality(remaining) ELSE Len(remaining)

\* the scan of the iteration to come finds a frame that remains
CandidateFound ==
    CASE script = "python" -> BestIdx(frameglasses, current, remaining) \in remaining
      [] script = "op1gpt" -> BestIndex \in 0 .. Len(remaining) - 1
      [] script = "Optimised" ->
             NextFramePos(current, sample(remaining)) \in DOMAIN remaining

C27_InLoop ==
    pc = "greedy" =>
        /\ Len(result) >= 1
        /\ Len(result) + RemainingCount = Len(BuiltFrames)
        /\ Range(result) \cap RemainingFrames = {}
        /\ Range(result) \cup RemainingFrames = Range(BuiltFrames)
        /\ RemainingCount > 0 => CandidateFound

C27_Step ==
    /\ (pc = "greedy" /\ pc' = "greedy") =>
          /\ Len(result') = Len(result) + 1
          /\ SubSeq(result', 1, Len(result)) = result
          /\ result'[Len(result')] \in RemainingFrames
          /\ RemainingFrames' = RemainingFrames \ {result'[Len(result')]}
          /\ RemainingCount' = RemainingCount - 1
    /\ (pc = "greedy" /\ pc' # "greedy") =>
          /\ RemainingCount = 0
          /\ Len(result) = Len(BuiltFrames)
          /\ results'[NextStrategy].ordered = result

\* C27: every greedy loop removes one frame per iteration and ends with all
\* n frames placed, after n - 1 iterations
C27_GreedyTerminates == [](C27_InLoop) /\ [][C27_Step]_vars

\* a greedy loop that started from four frames has placed the fourth after
\* three iterations, and nothing remains
C27_Witness ==
    /\ script \in {"python", "op1gpt", "Optimised"}
    /\ pc = "greedy"
    /\ Len(BuiltFrames) = 4
    /\ Len(result) = 4
    /\ RemainingCount = 0

----------------------------------------------------------------------------
(* Optimised.py's run-all loop alone, under the candidate limit of the       *)
(* source as well as under the scaled one.                                   *)

InitFast ==
    /\ OrderInputs
    /\ script = "Optimised"
    /\ cand_limit \in Limits

NextFast ==
    \/ create_frames_call
    \/ run_all_begin
    \/ try_strategy
    \/ try_random
    \/ strat_greedy_fast_begin
    \/ strat_greedy_fast_step
    \/ greedy_return
    \/ run_all_end

SpecFast == InitFast /\ [][NextFast]_vars

----------------------------------------------------------------------------
(* C28: strat_greedy_fast against python.py's order_greedy on the same       *)
(* frames, when the frames are no more than the candidate limit.             *)

\* python.py 219-232: the loop of order_greedy, run to its end
RECURSIVE OrderGreedyFrom(_, _, _)
OrderGreedyFrom(fgs, ordered, rem) ==
    IF rem = {} THEN ordered
    ELSE LET best_idx == BestIdx(fgs, ordered[Len(ordered)], rem)
         IN  OrderGreedyFrom(fgs, Append(ordered, fgs[best_idx + 1]),
                             rem \ {best_idx})

\* python.py 205-234, a whole call
order_greedy(fgs) ==
    IF fgs = <<>> THEN <<>>
    ELSE LET start_idx == MaxTagCountPos(fgs) - 1
         IN  OrderGreedyFrom(fgs, <<fgs[start_idx + 1]>>,
                             (0 .. Len(fgs) - 1) \ {start_idx})

\* the frames python.py builds of the catalog Optimised.py has read (all of
\* its paintings are landscapes)
PythonFrames ==
    LandscapeFrames([j \in DOMAIN catalog |->
                        Painting(j - 1, catalog[j].orientation, catalog[j].tags)])

\* a list of frames as the output file names it: the painting ids of each frame
IdsOf(fgs) ==
    [k \in DOMAIN fgs |-> [j \in DOMAIN fgs[k].paintings |-> fgs[k].paintings[j].id]]

\* C28: with no more frames than the limit, the frames strat_greedy_fast has
\* placed so far are the first frames of order_greedy's list, up to all of it
C28_FastIsExhaustive ==
    (script = "Optimised" /\ pc = "greedy" /\ Len(frameglasses) <= cand_limit)
        => IdsOf(result) = SubSeq(IdsOf(order_greedy(PythonFrames)), 1, Len(result))

\* four frames under the limit of 1000, all placed; frames 2 and 3 were equally
\* good after the start frame, and the list is not the input order
C28_Witness ==
    /\ script = "Optimised"
    /\ pc = "greedy"
    /\ cand_limit = LIMIT_CANDIDATES_1000
    /\ Len(frameglasses) = 4
    /\ Len(result) = 4
    /\ IdsOf(result) # IdsOf(frameglasses)
    /\ result[1] = frameglasses[1]
    /\ local_score(frameglasses[1], frameglasses[2]) >= 1
    /\ local_score(frameglasses[1], frameglasses[2])
          = local_score(frameglasses[1], frameglasses[3])

----------------------------------------------------------------------------
(* C29: the run-all loops that keep a best ordering (python.py, finalall.py, *)
(* Optimised.py, naveen.py).  The iteration that tries the reversed order    *)
(* comes after the one of the input order, scores what that one scored,      *)
(* does not pass the test score > best_score, and leaves the kept score and  *)
(* the kept ordering as they were.                                           *)

SameName == IF script = "naveen" THEN "Same order" ELSE "same"

ReverseName == IF script = "naveen" THEN "Reverse order" ELSE "reverse"

C29_Step ==
    (/\ script \in KeepingScripts
     /\ pc = "loop"
     /\ sidx < Len(StrategyTable)
     /\ sidx' = sidx + 1
     /\ StrategyTable[sidx'] = ReverseName)
        => /\ SameName \in DOMAIN results
           /\ ~(results'[ReverseName].score > run_best_score)
           /\ results'[ReverseName].score = results[SameName].score
           /\ run_best_score' = run_best_score
           /\ best_ordered' = best_ordered
           /\ best_ordered' = results[SameName].ordered

\* C29: trying 'reverse' never replaces the kept ordering
C29_ReverseNeverKept == [][C29_Step]_vars

\* python.py has tried the reversed order of four frames, a different list
\* of a positive score, and still keeps the input order
C29_Witness ==
    /\ script = "python"
    /\ pc = "loop"
    /\ sidx = 2
    /\ Len(frameglasses) = 4
    /\ results["reverse"].ordered # results["same"].ordered
    /\ results["reverse"].score >= 1
    /\ best_ordered = results["same"].ordered
    /\ run_best_score = results["reverse"].score

=============================================================================
